---- MODULE Spec2Model ----
(***************************************************************************)
(* Verification model of pw_convoverb.                                     *)
(*                                                                         *)
(*  Spec        the reverb coordinator (dsp.ConvolutionReverb): the host   *)
(*              callback, the control operations, the background resample  *)
(*              worker and the listener notifications, interleaved at the  *)
(*              granularity of the sync.RWMutex critical sections.         *)
(*  SpecNotify  the same coordinator with the web server registered as     *)
(*              StateListener and a host that keeps its sample rate.       *)
(*  SpecEngine  one low-latency partitioned convolution engine             *)
(*              (dsp.LowLatencyConvolutionEngine with its                  *)
(*              ConvolutionStages), in exact integer arithmetic.           *)
(*  SpecLevels  the coordinator at a fixed rate with the wet and dry level *)
(*              setters and ProcessBlock split at the engine call.         *)
(*  SpecSnapshot  the same with the resample worker and SwitchIR, for the  *)
(*              read lock held over one ProcessBlock call.                 *)
(*  SpecRebuild  coordinators of one to three channels with SetLatency and *)
(*              the engines rebuilt by loads and resamples.                *)
(*  SpecEngineFault  the engine with a stage whose FFT plan returns an     *)
(*              error.                                                     *)
(*  SpecLibrary  irformat.Writer followed by irformat.Reader on the file   *)
(*              written, field by field, with the f16 audio encoding.      *)
(*  SpecDamaged  the reader on a written library with a chunk id           *)
(*              overwritten or with its end cut off.                       *)
(*  SpecForeign  the reader on a library whose IR chunk holds a sub-chunk  *)
(*              of unknown id.                                             *)
(*  SpecF16     the half-precision conversions of package f16 applied to   *)
(*              float32 values and to 16-bit patterns.                     *)
(*  SpecOverlapAdd  one dsp.OverlapAddEngine fed blocks of varying length. *)
(*  SpecResample  resampler.Resample and CalculateOutputLength, with the   *)
(*              float64 arithmetic of the length computation.              *)
(*  SpecRates   the coordinator with one loaded IR and a host that changes *)
(*              its sample rate; SpecRatesFair adds the fairness of the    *)
(*              Go scheduler and of sync.RWMutex.                          *)
(*  SpecPartition  the constructor of the low-latency engine up to         *)
(*              partitionIR, on IRs of many lengths and all orders.        *)
(*  SpecHub     the WebSocket hub (web.Hub) with the handler goroutines    *)
(*              of two clients, one channel operation per step.            *)
(***************************************************************************)
EXTENDS Integers, Sequences, FiniteSets, TLC

----------------------------------------------------------------------------
(* Bounds of the model                                                     *)

\* goroutine slots for background resample workers
MaxWorkers == 2
\* listener notifications ("go l.OnIRChange") not yet delivered
MaxPending == 2
\* ProcessBlock and ProcessSample32 calls made on one engine
MaxCalls == 4
\* resets applied to one engine
MaxResets == 1
\* IRs written to one library
MaxIRs == 2
\* capacity of a client's send channel and of the hub's broadcast channel
\* (256 in the program)
SendBuffer == 2
BroadcastBuffer == 2
\* Hub.Broadcast calls made
MaxBroadcasts == 4

----------------------------------------------------------------------------
(* Program constants                                                       *)

NumChannels == 2
DefaultSampleRate == 48000
DefaultMinBlockOrder == 6
DefaultMaxBlockOrder == 9
\* wetLevel: 0.3, dryLevel: 0.7, in hundredths
DefaultWetLevel == 30
DefaultDryLevel == 70
\* SetLatency clamps to [6, 9]
MinLatencyOrder == 6
MaxLatencyOrder == 9
MinOrderLimit == 6
MaxOrderLimit == 12

\* sample rates the host reports to process_channel_go (0: "rate > 0" fails)
HostRates == {0, 24000, 48000}
\* frame counts of one host block
FrameCounts == {1, 64, 65}

\* channel indices handed to ProcessBlock: negative, valid, and past the end
\* for every channel count
ChannelArgs == (0 - 1) .. (NumChannels + 1)

\* The embedded IR library: name, sample rate, channel count and length of
\* every entry (index i of the library is entry i + 1 here).
Lib ==
  << [name |-> "hall",  rate |-> 48000, nch |-> 2, len |-> 100],
     [name |-> "click", rate |-> 96000, nch |-> 1, len |-> 1] >>

\* "audio" runs process_channel_go; "tui" switches IRs at run time (tui.go,
\* like the web handler); "main" loads IRs through the Load... entry points
Threads == {"audio", "tui", "main"}
Switchers == {"tui"}
Loaders == {"main"}
WorkerIds == 1 .. MaxWorkers
WName(i) == "worker" \o ToString(i)

VARIABLES
  \* ---- ConvolutionReverb fields
  sampleRate, originalIR, originalIRRate, resamplingInFlight,
  engineType, minBlockOrder, maxBlockOrder, engines, enabled,
  \* ---- sync.RWMutex, threads, goroutines
  listeners, mu, pc, loc, jobs, pending, heard, fault,
  \* ---- ConvolutionReverb fields: channel count, mix levels (hundredths)
  channels, wetLevel, dryLevel,
  \* ---- what the ProcessBlock call in progress saw when it took the
  \*      reader lock; between calls, what the last call left in the output
  snap,
  \* ---- observations
  wLast, lastSwitch,
  \* ---- one low-latency engine under test
  cfg, sid, eng, fed, out, calls, resets, trail,
  \* ---- one IR library: the sink the Writer writes to and the Reader reads
  \*      from (a sequence of fields), the Writer, the IRs handed to WriteIR,
  \*      the Reader, the last Reader call and its result, and what was
  \*      done to the file after it was written
  file, wr, written, rd, ret, damage,
  \* ---- the WebSocket hub: the Hub (clients map, broadcast channel, where
  \*      Run stands), per client the handler goroutine with its pumps and
  \*      the removal goroutines waiting to unregister it, per client the
  \*      send channel, the panic raised last, and the number of Broadcast
  \*      calls made
  hub, conn, send, crash, casts

cvars == <<sampleRate, originalIR, originalIRRate, resamplingInFlight,
           engineType, minBlockOrder, maxBlockOrder, engines, enabled,
           listeners, mu, pc, loc, jobs, pending, heard, fault,
           wLast, lastSwitch, channels, wetLevel, dryLevel, snap>>
mvars == <<channels, wetLevel, dryLevel, snap>>
gvars == <<cfg, sid, eng, fed, out, calls, resets, trail>>
lvars == <<file, wr, written, rd, ret, damage>>
hvars == <<hub, conn, send, crash, casts>>
evars == <<gvars, lvars, hvars>>
vars == <<cvars, evars>>

----------------------------------------------------------------------------
(* Engines as the coordinator sees them                                    *)

\* a nil ConvolutionEngine interface value
NilEngine ==
  [state |-> "nil", kind |-> "none", ir |-> 0, sch |-> 0, rate |-> 0,
   len |-> 0, order |-> 0]

\* resampler.Resample: the length of the result
\* (math.Round rounds half away from zero)
ResampledLen(n, srcRate, dstRate) ==
  IF n = 0 THEN 0
  ELSE IF srcRate = dstRate THEN n
  ELSE (2 * n * dstRate + srcRate) \div (2 * srcRate)

\* NewLowLatencyConvolutionEngine: the parameter checks
LowLatencyParamsOK(irLen, minOrd, maxOrd) ==
  /\ minOrd >= MinOrderLimit
  /\ minOrd <= MaxOrderLimit
  /\ maxOrd >= minOrd
  /\ irLen # 0

\* createEngine: "ok" with the engine, "err" with a typed nil pointer wrapped
\* in the interface (the low-latency constructor returned nil, err), or
\* "panic" (NewOverlapAddEngine allocates make([]float32, irLen-1)).
createEngine(etype, irIdx, sch, rate, irLen, minOrd, maxOrd) ==
  LET e == [state |-> "ok", kind |-> etype, ir |-> irIdx, sch |-> sch,
            rate |-> rate, len |-> irLen, order |-> minOrd]
  IN IF etype = "overlapadd"
     THEN IF irLen = 0
          THEN [res |-> "panic", engine |-> NilEngine]
          ELSE [res |-> "ok", engine |-> e]
     ELSE IF LowLatencyParamsOK(irLen, minOrd, maxOrd)
          THEN [res |-> "ok", engine |-> e]
          ELSE [res |-> "err",
                engine |-> [NilEngine EXCEPT !.state = "typednil",
                                             !.kind = etype]]

\* source channel used for output channel ch
SourceChannel(ch, nch) == IF ch < nch THEN ch ELSE 0

\* The per-channel loop shared by applyImpulseResponseUnlocked and the
\* resample worker: builds engine after engine from channel 0 upwards.
\* stopOnErr: applyImpulseResponseUnlocked assigns the returned interface
\* and returns at the first error; the worker skips the channel (continue).
RECURSIVE BuildFrom(_, _, _, _, _, _, _, _, _)
BuildFrom(ch, engs, etype, irIdx, rate, irLen, minOrd, maxOrd, stopOnErr) ==
  IF ch >= channels
  THEN [res |-> "ok", engines |-> engs]
  ELSE LET c == createEngine(etype, irIdx, SourceChannel(ch, Lib[irIdx].nch),
                             rate, irLen, minOrd, maxOrd)
       IN IF c.res = "panic"
          THEN [res |-> "panic", engines |-> engs]
          ELSE IF c.res = "err"
          THEN IF stopOnErr
               THEN [res |-> "err",
                     engines |-> [engs EXCEPT ![ch] = c.engine]]
               ELSE BuildFrom(ch + 1, engs, etype, irIdx, rate, irLen,
                              minOrd, maxOrd, stopOnErr)
          ELSE BuildFrom(ch + 1, [engs EXCEPT ![ch] = c.engine], etype,
                         irIdx, rate, irLen, minOrd, maxOrd, stopOnErr)

----------------------------------------------------------------------------
(* The reverb coordinator: state after NewConvolutionReverb[WithEngine]    *)

IdleLoc == [ir |-> 0, rate |-> 0]
FreeJob == [pc |-> "free", rate |-> 0, ir |-> 0, irRate |-> 0, len |-> 0]
NoIR == [idx |-> 0 - 1, name |-> ""]

\* ---- the WebSocket hub before any client connects

\* browsers that connect to /ws
Clients == {"c1", "c2"}

\* an open, empty "send: make(chan []byte, 256)"
NewSend == [len |-> 0, closed |-> FALSE, closes |-> 0]

\* no handler goroutine yet for this client
NoConn == [pc |-> "none", writePump |-> "none", removers |-> 0]

\* NewHub(), and Run waiting in its select
NewHub == [clients |-> {}, broadcast |-> 0, pc |-> "select", todo |-> {}]

InitHubIdle ==
  /\ hub = NewHub
  /\ conn = [c \in Clients |-> NoConn]
  /\ send = [c \in Clients |-> NewSend]
  /\ crash = "none"
  /\ casts = 0

\* NewWriter(w) on an empty sink; no Reader yet
NoResult == [op |-> "none"]
NoDamage == [kind |-> "none"]
InitLibraryIdle ==
  /\ file = <<>>
  /\ wr = [phase |-> "new", irCount |-> 0, irOffsets |-> <<>>,
           irMetas |-> <<>>, currentPos |-> 0]
  /\ written = <<>>
  /\ rd = [state |-> "none"]
  /\ ret = NoResult
  /\ damage = NoDamage
  /\ InitHubIdle

InitEngineIdle ==
  /\ cfg = 0 /\ sid = 0 /\ eng = <<>> /\ fed = 0 /\ out = <<>>
  /\ calls = 0 /\ resets = 0 /\ trail = {}
  /\ InitLibraryIdle

\* a float64 level: a number of hundredths, or NaN
Level(v) == [nan |-> FALSE, v |-> v]
NaN == [nan |-> TRUE, v |-> 0]
\* float64 "<": false whenever an operand is NaN
FLess(a, b) == ~a.nan /\ ~b.nan /\ a.v < b.v

\* no ProcessBlock call yet, or one that copied the input to the output
NoSnap == <<>>

NewConvolutionReverb(rate, chans, etype) ==
  /\ sampleRate = rate
  /\ channels = chans
  /\ wetLevel = Level(DefaultWetLevel)
  /\ dryLevel = Level(DefaultDryLevel)
  /\ originalIR = 0
  /\ originalIRRate = 0
  /\ resamplingInFlight = FALSE
  /\ engineType = etype
  /\ minBlockOrder = DefaultMinBlockOrder
  /\ maxBlockOrder = DefaultMaxBlockOrder
  /\ engines = [ch \in 0 .. chans - 1 |-> NilEngine]
  /\ enabled = FALSE

\* a coordinator for one of the given channel counts, with the given
\* listeners registered (AddStateListener)
InitCoordinator(ls, chanCounts) ==
  /\ \E etype \in {"lowlatency", "overlapadd"}, chans \in chanCounts :
        NewConvolutionReverb(DefaultSampleRate, chans, etype)
  /\ listeners = ls
  /\ mu = [w |-> "none", r |-> {}]
  /\ pc = [t \in Threads |-> "idle"]
  /\ loc = [t \in Threads |-> IdleLoc]
  /\ jobs = [i \in WorkerIds |-> FreeJob]
  /\ pending = <<>>
  /\ heard = [l \in ls |-> NoIR]
  /\ fault = "none"
  /\ wLast = "none"
  /\ lastSwitch = NoIR
  /\ snap = NoSnap
  /\ InitEngineIdle

\* the program's coordinator: NewConvolutionReverb(sampleRate, channels)
InitWith(ls) == InitCoordinator(ls, {NumChannels})

\* no web server (-no-web): nobody listens
Init == InitWith({})

\* the web server is registered as StateListener
InitNotify == InitWith({"server"})

\* a lock that lets a writer in while readers hold it
MuFreeIgnoringReaders == mu.w = "none"

\* sync.RWMutex: Lock() is granted when no writer and no reader holds it
MuFree == mu.w = "none" /\ mu.r = {}
Running == fault = "none"

----------------------------------------------------------------------------
(* process_channel_go and SetSampleRate                                    *)

\* process_channel_go: "if rate > 0 { reverb.SetSampleRate(rate) }", whose
\* first statement is r.mu.Lock(); otherwise straight on to ProcessBlock.
ProcessChannelGo(rate) ==
  /\ Running
  /\ pc["audio"] = "idle"
  /\ IF rate > 0
     THEN /\ MuFree
          /\ mu' = [mu EXCEPT !.w = "audio"]
          /\ pc' = [pc EXCEPT !["audio"] = "ssr_body"]
          /\ loc' = [loc EXCEPT !["audio"].rate = rate]
     ELSE /\ pc' = [pc EXCEPT !["audio"] = "pb_rlock"]
          /\ UNCHANGED <<mu, loc>>
  /\ UNCHANGED <<sampleRate, originalIR, originalIRRate, resamplingInFlight,
                 engineType, minBlockOrder, maxBlockOrder, engines, enabled,
                 listeners, jobs, pending, heard, fault, wLast, lastSwitch,
                 mvars, evars>>

\* "if r.originalIR == nil || r.resamplingInFlight { unlock; return }"
SkipResampleNoFlagCheck == originalIR = 0
SkipResample == originalIR = 0 \/ resamplingInFlight

FreeSlots == {i \in WorkerIds : jobs[i].pc = "free"}

\* what SetSampleRate does to the engines and the enabled flag when it
\* starts a resample: nothing
StartResampleDropEngines ==
  /\ engines' = [ch \in 0 .. channels - 1 |-> NilEngine]
  /\ enabled' = FALSE
StartResampleEngines == UNCHANGED <<engines, enabled>>

\* SetSampleRate, the critical section and the "go func()" after it
SetSampleRate_Body(t) ==
  /\ Running
  /\ pc[t] = "ssr_body"
  /\ mu.w = t
  /\ LET rate == loc[t].rate IN
       IF rate = sampleRate
       THEN UNCHANGED <<sampleRate, resamplingInFlight, jobs, engines,
                        enabled>>
       ELSE /\ sampleRate' = rate
            /\ IF SkipResample
               THEN UNCHANGED <<resamplingInFlight, jobs, engines, enabled>>
               ELSE /\ FreeSlots # {}
                    /\ resamplingInFlight' = TRUE
                    /\ LET i == CHOOSE k \in FreeSlots :
                                  \A m \in FreeSlots : k <= m
                       IN jobs' = [jobs EXCEPT ![i] =
                                     [pc |-> "resample", rate |-> rate,
                                      ir |-> originalIR,
                                      irRate |-> originalIRRate, len |-> 0]]
                    /\ StartResampleEngines
  /\ mu' = [mu EXCEPT !.w = "none"]
  /\ pc' = [pc EXCEPT ![t] = "pb_rlock"]
  /\ loc' = [loc EXCEPT ![t] = IdleLoc]
  /\ UNCHANGED <<originalIR, originalIRRate, engineType, minBlockOrder,
                 maxBlockOrder, listeners, pending, heard, fault, wLast,
                 lastSwitch, mvars, evars>>

\* the goroutine: resamplerInst.ResampleMultiChannel(originalIR, ...), which
\* never returns an error
Worker_Resample(i) ==
  /\ Running
  /\ jobs[i].pc = "resample"
  /\ jobs' = [jobs EXCEPT ![i].pc = "lock",
                          ![i].len = ResampledLen(Lib[jobs[i].ir].len,
                                                  jobs[i].irRate,
                                                  jobs[i].rate)]
  /\ UNCHANGED <<sampleRate, originalIR, originalIRRate, resamplingInFlight,
                 engineType, minBlockOrder, maxBlockOrder, engines, enabled,
                 listeners, mu, pc, loc, pending, heard, fault, wLast,
                 lastSwitch, mvars, evars>>

\* the goroutine: r.mu.Lock()
Worker_Lock(i) ==
  /\ Running
  /\ jobs[i].pc = "lock"
  /\ MuFree
  /\ mu' = [mu EXCEPT !.w = WName(i)]
  /\ jobs' = [jobs EXCEPT ![i].pc = "body"]
  /\ UNCHANGED <<sampleRate, originalIR, originalIRRate, resamplingInFlight,
                 engineType, minBlockOrder, maxBlockOrder, engines, enabled,
                 listeners, pc, loc, pending, heard, fault, wLast,
                 lastSwitch, mvars, evars>>

\* "if r.sampleRate != sampleRate": the staleness test of the goroutine
IsStaleNever(job) == FALSE
IsStale(job) == sampleRate # job.rate

\* engines the goroutine builds when its result is still current
WorkerBuild(job) ==
  BuildFrom(0, engines, engineType, job.ir, job.rate, job.len,
            minBlockOrder, maxBlockOrder, FALSE)

\* the goroutine: the critical section (stale check, createEngine per
\* channel, clear the flag, deferred Unlock)
Worker_Body(i) ==
  /\ Running
  /\ jobs[i].pc = "body"
  /\ mu.w = WName(i)
  /\ IF ~IsStale(jobs[i]) /\ WorkerBuild(jobs[i]).res = "panic"
     THEN \* the panic in the goroutine ends the program
          /\ fault' = "NewOverlapAddEngine"
          /\ UNCHANGED <<engines, wLast, resamplingInFlight, mu, jobs>>
     ELSE /\ IF IsStale(jobs[i])
             THEN /\ wLast' = "dropped"
                  /\ UNCHANGED engines
             ELSE /\ engines' = WorkerBuild(jobs[i]).engines
                  /\ wLast' = "installed"
          /\ resamplingInFlight' = FALSE
          /\ mu' = [mu EXCEPT !.w = "none"]
          /\ jobs' = [jobs EXCEPT ![i] = FreeJob]
          /\ UNCHANGED fault
  /\ UNCHANGED <<sampleRate, originalIR, originalIRRate, engineType,
                 minBlockOrder, maxBlockOrder, enabled, listeners, pc, loc,
                 pending, heard, lastSwitch, mvars, evars>>

----------------------------------------------------------------------------
(* Loading and switching impulse responses                                 *)

\* irformat.Reader.LoadIR / LoadIRByName on the library: the entry found
\* (1-based here), or 0 for IndexOutOfRange / NotFound
LoadIR(irIndex) ==
  IF irIndex < 0 \/ irIndex >= Len(Lib) THEN 0 ELSE irIndex + 1

LoadIRByName(irName) ==
  IF \E i \in 1 .. Len(Lib) : Lib[i].name = irName
  THEN CHOOSE i \in 1 .. Len(Lib) :
         /\ Lib[i].name = irName
         /\ \A j \in 1 .. Len(Lib) : Lib[j].name = irName => i <= j
  ELSE 0

\* "if irName != "" { LoadIRByName } else { LoadIR(irIndex) }"
Select(irName, irIndex) ==
  IF irName # "" THEN LoadIRByName(irName) ELSE LoadIR(irIndex)

SelNames == {"", "click", "missing"}
SelIndexes == 0 .. Len(Lib)

\* applyImpulseResponseUnlocked
applyImpulseResponseUnlocked(irIdx) ==
  IF Lib[irIdx].nch = 0
  THEN [res |-> "err", originalIR |-> originalIR,
        originalIRRate |-> originalIRRate, engines |-> engines,
        enabled |-> enabled]
  ELSE LET irRate == Lib[irIdx].rate
           irLen == IF irRate # sampleRate
                    THEN ResampledLen(Lib[irIdx].len, irRate, sampleRate)
                    ELSE Lib[irIdx].len
           b == BuildFrom(0, engines, engineType, irIdx, sampleRate, irLen,
                          minBlockOrder, maxBlockOrder, TRUE)
       IN [res |-> b.res, originalIR |-> irIdx, originalIRRate |-> irRate,
           engines |-> b.engines,
           enabled |-> IF b.res = "ok" THEN TRUE ELSE enabled]

\* the state change of one applyImpulseResponseUnlocked call
Apply(a) ==
  /\ originalIR' = a.originalIR
  /\ originalIRRate' = a.originalIRRate
  /\ engines' = a.engines
  /\ enabled' = a.enabled
  /\ fault' = IF a.res = "panic" THEN "NewOverlapAddEngine" ELSE fault

\* SwitchIR calls in progress that may still spawn notifications
Switching == {u \in Switchers : pc[u] \in {"sw_lock", "sw_apply"}}

\* SwitchIR up to r.mu.Lock(): NewReader, ListIRs, the range check and
\* LoadIR, all before the lock is taken; an index out of range returns here
SwitchIR_Read(t, irIndex) ==
  /\ Running
  /\ t \in Switchers
  /\ pc[t] = "idle"
  /\ Len(pending) + Cardinality(Switching) * Cardinality(listeners)
       + Cardinality(listeners) <= MaxPending
  /\ LoadIR(irIndex) # 0
  /\ pc' = [pc EXCEPT ![t] = "sw_lock"]
  /\ loc' = [loc EXCEPT ![t].ir = LoadIR(irIndex)]
  /\ UNCHANGED <<sampleRate, originalIR, originalIRRate, resamplingInFlight,
                 engineType, minBlockOrder, maxBlockOrder, engines, enabled,
                 listeners, mu, jobs, pending, heard, fault, wLast,
                 lastSwitch, mvars, evars>>

\* SwitchIR: r.mu.Lock()
SwitchIR_Lock(t) ==
  /\ Running
  /\ pc[t] = "sw_lock"
  /\ MuFree
  /\ mu' = [mu EXCEPT !.w = t]
  /\ pc' = [pc EXCEPT ![t] = "sw_apply"]
  /\ UNCHANGED <<sampleRate, originalIR, originalIRRate, resamplingInFlight,
                 engineType, minBlockOrder, maxBlockOrder, engines, enabled,
                 listeners, loc, jobs, pending, heard, fault, wLast,
                 lastSwitch, mvars, evars>>

\* the notifications "for _, l := range listeners { go l.OnIRChange(...) }"
RECURSIVE Notes(_, _)
Notes(ls, note) ==
  IF ls = {} THEN <<>>
  ELSE LET l == CHOOSE x \in ls : TRUE
       IN <<[l |-> l, idx |-> note.idx, name |-> note.name]>>
            \o Notes(ls \ {l}, note)

\* SwitchIR: applyImpulseResponseUnlocked under the lock, Unlock, then one
\* "go l.OnIRChange(irIndex, name)" per listener
SwitchIR_Apply(t) ==
  /\ Running
  /\ pc[t] = "sw_apply"
  /\ mu.w = t
  /\ LET a == applyImpulseResponseUnlocked(loc[t].ir)
         note == [idx |-> loc[t].ir - 1, name |-> Lib[loc[t].ir].name]
     IN /\ Apply(a)
        /\ IF a.res = "ok"
           THEN /\ pending' = pending \o Notes(listeners, note)
                /\ lastSwitch' = note
           ELSE UNCHANGED <<pending, lastSwitch>>
  /\ mu' = [mu EXCEPT !.w = "none"]
  /\ pc' = [pc EXCEPT ![t] = "idle"]
  /\ loc' = [loc EXCEPT ![t] = IdleLoc]
  /\ UNCHANGED <<sampleRate, resamplingInFlight, engineType, minBlockOrder,
                 maxBlockOrder, listeners, jobs, heard, wLast, mvars, evars>>

\* the notification goroutine k runs: Server.OnIRChange stores index, name
OnIRChange(k) ==
  /\ Running
  /\ k \in 1 .. Len(pending)
  /\ heard' = [heard EXCEPT ![pending[k].l] =
                 [idx |-> pending[k].idx, name |-> pending[k].name]]
  /\ pending' = [j \in 1 .. Len(pending) - 1 |->
                   IF j < k THEN pending[j] ELSE pending[j + 1]]
  /\ UNCHANGED <<sampleRate, originalIR, originalIRRate, resamplingInFlight,
                 engineType, minBlockOrder, maxBlockOrder, engines, enabled,
                 listeners, mu, pc, loc, jobs, fault, wLast, lastSwitch,
                 mvars, evars>>

\* LoadImpulseResponseFromLibrary / LoadImpulseResponseFromReader /
\* LoadImpulseResponseFromBytes: "r.mu.Lock(); defer r.mu.Unlock()" is the
\* first statement
Load_Lock(t, op) ==
  /\ Running
  /\ t \in Loaders
  /\ pc[t] = "idle"
  /\ op \in {"lib_read", "rdr_read"}
  /\ MuFree
  /\ mu' = [mu EXCEPT !.w = t]
  /\ pc' = [pc EXCEPT ![t] = op]
  /\ UNCHANGED <<sampleRate, originalIR, originalIRRate, resamplingInFlight,
                 engineType, minBlockOrder, maxBlockOrder, engines, enabled,
                 listeners, loc, jobs, pending, heard, fault, wLast,
                 lastSwitch, mvars, evars>>

\* the read part of a load: on an error the deferred Unlock runs and the
\* call returns
Load_Read(t, found) ==
  /\ mu.w = t
  /\ IF found = 0
     THEN /\ mu' = [mu EXCEPT !.w = "none"]
          /\ pc' = [pc EXCEPT ![t] = "idle"]
          /\ UNCHANGED loc
     ELSE /\ pc' = [pc EXCEPT ![t] = "ld_apply"]
          /\ loc' = [loc EXCEPT ![t].ir = found]
          /\ UNCHANGED mu
  /\ UNCHANGED <<sampleRate, originalIR, originalIRRate, resamplingInFlight,
                 engineType, minBlockOrder, maxBlockOrder, engines, enabled,
                 listeners, jobs, pending, heard, fault, wLast, lastSwitch,
                 mvars, evars>>

\* LoadImpulseResponseFromLibrary: os.Open, irformat.NewReader, LoadIR...
LoadImpulseResponseFromLibrary_Read(t, fileOK, irName, irIndex) ==
  /\ Running
  /\ pc[t] = "lib_read"
  /\ Load_Read(t, IF fileOK THEN Select(irName, irIndex) ELSE 0)

\* LoadImpulseResponseFromReader: irformat.NewReader, LoadIR...
LoadImpulseResponseFromReader_Read(t, irName, irIndex) ==
  /\ Running
  /\ pc[t] = "rdr_read"
  /\ Load_Read(t, Select(irName, irIndex))

\* the tail of both loads: applyImpulseResponse, then the deferred Unlock
Load_Apply(t) ==
  /\ Running
  /\ pc[t] = "ld_apply"
  /\ mu.w = t
  /\ Apply(applyImpulseResponseUnlocked(loc[t].ir))
  /\ mu' = [mu EXCEPT !.w = "none"]
  /\ pc' = [pc EXCEPT ![t] = "idle"]
  /\ loc' = [loc EXCEPT ![t] = IdleLoc]
  /\ UNCHANGED <<sampleRate, resamplingInFlight, engineType, minBlockOrder,
                 maxBlockOrder, listeners, jobs, pending, heard, wLast,
                 lastSwitch, mvars, evars>>

----------------------------------------------------------------------------
(* ProcessBlock                                                            *)

\* the fields a ProcessBlock call reads: the engines, the enabled flag and
\* the mix levels
Snapshot ==
  [engines |-> engines, enabled |-> enabled, wetLevel |-> wetLevel,
   dryLevel |-> dryLevel]

\* ProcessBlock: r.mu.RLock()
ProcessBlock_RLock ==
  /\ Running
  /\ pc["audio"] = "pb_rlock"
  /\ mu.w = "none"
  /\ mu' = [mu EXCEPT !.r = @ \cup {"audio"}]
  /\ pc' = [pc EXCEPT !["audio"] = "pb_body"]
  /\ snap' = Snapshot
  /\ UNCHANGED <<sampleRate, originalIR, originalIRRate, resamplingInFlight,
                 engineType, minBlockOrder, maxBlockOrder, engines, enabled,
                 listeners, loc, jobs, pending, heard, fault, wLast,
                 lastSwitch, channels, wetLevel, dryLevel, evars>>

\* OverlapAddEngine.ProcessBlock panics on "len(input) > e.blockSize";
\* LowLatencyConvolutionEngine.ProcessBlock takes any length
EngineAccepts(e, n) ==
  e.kind = "overlapadd" => n <= 2 ^ e.order

\* what one ProcessBlock call does for channel argument ch and n frames:
\*   "bypass"  copy(output, input)
\*   "mixed"   dry/wet mix of the engine's output
\*   "panic"   a run-time panic leaves the call
BlockResult(ch, n) ==
  IF ~enabled \/ ch >= channels THEN "bypass"
  ELSE IF ch < 0 THEN "panic"
  ELSE IF engines[ch].state = "nil" THEN "bypass"
  ELSE IF engines[ch].state = "typednil" THEN "panic"
  ELSE IF ~EngineAccepts(engines[ch], n) THEN "panic"
  ELSE "mixed"

\* what the call leaves in the output block: the input (bypass, or nothing
\* on a panic), or the mix "input * dryLevel + wet * wetLevel"
BlockOutput(res) ==
  IF res = "mixed" THEN [dry |-> dryLevel, wet |-> wetLevel] ELSE NoSnap

\* ProcessBlock leaves with the given result: the deferred RUnlock runs
ProcessBlock_Return(res) ==
  /\ "audio" \in mu.r
  /\ fault' = IF res = "panic" THEN "ProcessBlock" ELSE fault
  /\ mu' = [mu EXCEPT !.r = @ \ {"audio"}]
  /\ pc' = [pc EXCEPT !["audio"] = "idle"]
  /\ snap' = BlockOutput(res)
  /\ UNCHANGED <<sampleRate, originalIR, originalIRRate, resamplingInFlight,
                 engineType, minBlockOrder, maxBlockOrder, engines, enabled,
                 listeners, loc, jobs, pending, heard, wLast, lastSwitch,
                 channels, wetLevel, dryLevel, evars>>

\* ProcessBlock after RLock, up to the deferred RUnlock
ProcessBlock_Body(ch, n) ==
  /\ Running
  /\ pc["audio"] = "pb_body"
  /\ ProcessBlock_Return(BlockResult(ch, n))

\* ProcessBlock in two steps.  First the tests of line 1023 and the engine's
\* ProcessBlockInplace: a bypass or a panic ends the call here
ProcessBlock_Engine(ch, n) ==
  /\ Running
  /\ pc["audio"] = "pb_body"
  /\ IF BlockResult(ch, n) = "mixed"
     THEN /\ "audio" \in mu.r
          /\ pc' = [pc EXCEPT !["audio"] = "pb_mix"]
          /\ UNCHANGED <<sampleRate, originalIR, originalIRRate,
                         resamplingInFlight, engineType, minBlockOrder,
                         maxBlockOrder, engines, enabled, listeners, mu,
                         loc, jobs, pending, heard, fault, wLast,
                         lastSwitch, mvars, evars>>
     ELSE ProcessBlock_Return(BlockResult(ch, n))

\* ... then the dry/wet mix loop, which reads r.dryLevel and r.wetLevel
ProcessBlock_Mix ==
  /\ Running
  /\ pc["audio"] = "pb_mix"
  /\ ProcessBlock_Return("mixed")

----------------------------------------------------------------------------
(* Setters                                                                 *)

\* arguments handed to SetWetLevel / SetDryLevel and to SetLatency
LevelArgs == {Level(0 - 50), Level(50), Level(150), NaN}
LatencyArgs == {5, 7, 10}

\* "if level < 0.0 { level = 0.0 }; if level > 1.0 { level = 1.0 }"
ClampLevel(level) ==
  IF FLess(level, Level(0)) THEN Level(0)
  ELSE IF FLess(Level(100), level) THEN Level(100)
  ELSE level

\* SetWetLevel: Lock, clamp, store, Unlock
SetWetLevel(level) ==
  /\ Running
  /\ MuFree
  /\ wetLevel' = ClampLevel(level)
  /\ UNCHANGED <<sampleRate, originalIR, originalIRRate, resamplingInFlight,
                 engineType, minBlockOrder, maxBlockOrder, engines, enabled,
                 listeners, mu, pc, loc, jobs, pending, heard, fault, wLast,
                 lastSwitch, channels, dryLevel, snap, evars>>

\* SetDryLevel: Lock, clamp, store, Unlock
SetDryLevel(level) ==
  /\ Running
  /\ MuFree
  /\ dryLevel' = ClampLevel(level)
  /\ UNCHANGED <<sampleRate, originalIR, originalIRRate, resamplingInFlight,
                 engineType, minBlockOrder, maxBlockOrder, engines, enabled,
                 listeners, mu, pc, loc, jobs, pending, heard, fault, wLast,
                 lastSwitch, channels, wetLevel, snap, evars>>

\* GetWetLevel / GetDryLevel: RLock, read, RUnlock
GetWetLevel == wetLevel
GetDryLevel == dryLevel

\* "if minBlockOrder < 6 { = 6 }; if minBlockOrder > 9 { = 9 }"
ClampOrder(m) ==
  IF m < MinLatencyOrder THEN MinLatencyOrder
  ELSE IF m > MaxLatencyOrder THEN MaxLatencyOrder
  ELSE m

\* SetLatency: Lock, clamp, store, deferred Unlock
SetLatency(m) ==
  /\ Running
  /\ MuFree
  /\ minBlockOrder' = ClampOrder(m)
  /\ UNCHANGED <<sampleRate, originalIR, originalIRRate, resamplingInFlight,
                 engineType, maxBlockOrder, engines, enabled,
                 listeners, mu, pc, loc, jobs, pending, heard, fault, wLast,
                 lastSwitch, mvars, evars>>

----------------------------------------------------------------------------
(* The two coordinator specifications                                      *)

\* everything but the host callback's entry and the notifications
Control ==
  \/ \E t \in Threads : SetSampleRate_Body(t)
  \/ \E t \in Switchers, irIndex \in SelIndexes : SwitchIR_Read(t, irIndex)
  \/ \E t \in Switchers : SwitchIR_Lock(t)
  \/ \E t \in Switchers : SwitchIR_Apply(t)
  \/ \E t \in Loaders, op \in {"lib_read", "rdr_read"} : Load_Lock(t, op)
  \/ \E t \in Loaders, fileOK \in BOOLEAN, irName \in SelNames,
        irIndex \in SelIndexes :
        LoadImpulseResponseFromLibrary_Read(t, fileOK, irName, irIndex)
  \/ \E t \in Loaders, irName \in SelNames, irIndex \in SelIndexes :
        LoadImpulseResponseFromReader_Read(t, irName, irIndex)
  \/ \E t \in Loaders : Load_Apply(t)
  \/ ProcessBlock_RLock
  \/ \E ch \in ChannelArgs, n \in FrameCounts : ProcessBlock_Body(ch, n)

\* a host whose sample rate changes, no listener registered
Next ==
  \/ \E rate \in HostRates : ProcessChannelGo(rate)
  \/ \E i \in WorkerIds : Worker_Resample(i)
  \/ \E i \in WorkerIds : Worker_Lock(i)
  \/ \E i \in WorkerIds : Worker_Body(i)
  \/ Control

Spec == Init /\ [][Next]_vars

\* a host that stays at the default rate, the web server listening
NextNotify ==
  \/ ProcessChannelGo(DefaultSampleRate)
  \/ \E k \in 1 .. MaxPending : OnIRChange(k)
  \/ Control

SpecNotify == InitNotify /\ [][NextNotify]_vars

\* sample rates of a host that changes its rate
RebuildRates == {24000, 48000}

\* the load steps of LoadImpulseResponseFromBytes(data, "", irIndex)
LoadFromBytes ==
  \/ \E t \in Loaders : Load_Lock(t, "rdr_read")
  \/ \E t \in Loaders, irIndex \in SelIndexes :
        LoadImpulseResponseFromReader_Read(t, "", irIndex)
  \/ \E t \in Loaders : Load_Apply(t)

\* a host that stays at the default rate while the levels are set; the
\* ProcessBlock call is taken in two steps
NextLevels ==
  \/ ProcessChannelGo(DefaultSampleRate)
  \/ SetSampleRate_Body("audio")
  \/ ProcessBlock_RLock
  \/ \E ch \in ChannelArgs, n \in FrameCounts : ProcessBlock_Engine(ch, n)
  \/ ProcessBlock_Mix
  \/ \E level \in LevelArgs : SetWetLevel(level)
  \/ \E level \in LevelArgs : SetDryLevel(level)
  \/ LoadFromBytes

SpecLevels == Init /\ [][NextLevels]_vars

\* levels the TUI and the web client set at run time
MixArgs == {Level(50)}

\* the callback, taken in two steps, against everything that writes what it
\* reads: the setters, loads, IR switches, and rate changes with their
\* resample worker
NextSnapshot ==
  \/ \E rate \in RebuildRates : ProcessChannelGo(rate)
  \/ SetSampleRate_Body("audio")
  \/ \E i \in WorkerIds : Worker_Resample(i)
  \/ \E i \in WorkerIds : Worker_Lock(i)
  \/ \E i \in WorkerIds : Worker_Body(i)
  \/ ProcessBlock_RLock
  \/ \E ch \in ChannelArgs, n \in FrameCounts : ProcessBlock_Engine(ch, n)
  \/ ProcessBlock_Mix
  \/ \E level \in MixArgs : SetWetLevel(level)
  \/ \E level \in MixArgs : SetDryLevel(level)
  \/ LoadFromBytes
  \/ \E t \in Switchers, irIndex \in SelIndexes : SwitchIR_Read(t, irIndex)
  \/ \E t \in Switchers : SwitchIR_Lock(t)
  \/ \E t \in Switchers : SwitchIR_Apply(t)

SpecSnapshot == Init /\ [][NextSnapshot]_vars

\* coordinators of one to three channels: rate changes with their resample
\* worker, loads, and SetLatency
ChannelCounts == {1, 2, 3}

InitRebuild == InitCoordinator({}, ChannelCounts)

NextRebuild ==
  \/ \E rate \in RebuildRates : ProcessChannelGo(rate)
  \/ SetSampleRate_Body("audio")
  \/ \E i \in WorkerIds : Worker_Resample(i)
  \/ \E i \in WorkerIds : Worker_Lock(i)
  \/ \E i \in WorkerIds : Worker_Body(i)
  \/ ProcessBlock_RLock
  \/ \E ch \in ChannelArgs, n \in FrameCounts : ProcessBlock_Body(ch, n)
  \/ \E m \in LatencyArgs : SetLatency(m)
  \/ LoadFromBytes

SpecRebuild == InitRebuild /\ [][NextRebuild]_vars

\* sample rates of a host that changes its rate more than once
ChangingRates == {24000, 48000, 96000}

\* LoadImpulseResponseFromBytes called once: no second load is started
\* after an IR has been stored
FirstLoad_Lock(t) ==
  /\ originalIR = 0
  /\ Load_Lock(t, "rdr_read")

\* one IR loaded, then a host that changes its rate again and again, with
\* the resample worker
NextRates ==
  \/ \E rate \in ChangingRates : ProcessChannelGo(rate)
  \/ SetSampleRate_Body("audio")
  \/ \E i \in WorkerIds : Worker_Resample(i)
  \/ \E i \in WorkerIds : Worker_Lock(i)
  \/ \E i \in WorkerIds : Worker_Body(i)
  \/ ProcessBlock_RLock
  \/ \E ch \in ChannelArgs, n \in FrameCounts : ProcessBlock_Body(ch, n)
  \/ \E t \in Loaders : FirstLoad_Lock(t)
  \/ \E t \in Loaders, irIndex \in SelIndexes :
        LoadImpulseResponseFromReader_Read(t, "", irIndex)
  \/ \E t \in Loaders : Load_Apply(t)

SpecRates == Init /\ [][NextRates]_vars

\* the same under the scheduling the Go runtime gives: a goroutine that can
\* run does run (the resample worker), a call in progress is carried on
\* (SetSampleRate and ProcessBlock of the host callback, the load), and a
\* goroutine waiting in Lock() gets the lock although others keep taking
\* and releasing it (a waiting writer holds off new readers, and a
\* sync.Mutex waiter that has waited long is served first)
SpecRatesFair ==
  /\ SpecRates
  /\ \A i \in WorkerIds :
        /\ WF_vars(Worker_Resample(i))
        /\ SF_vars(Worker_Lock(i))
        /\ WF_vars(Worker_Body(i))
  /\ WF_vars(SetSampleRate_Body("audio"))
  /\ WF_vars(ProcessBlock_RLock)
  /\ WF_vars(\E ch \in ChannelArgs, n \in FrameCounts :
                ProcessBlock_Body(ch, n))
  /\ \A t \in Loaders : WF_vars(Load_Apply(t))

----------------------------------------------------------------------------
(* The low-latency partitioned convolution engine                          *)
(*                                                                         *)
(* Samples are integers and the FFT -> multiply -> inverse FFT of a stage  *)
(* is the circular convolution it computes, so the arithmetic is exact.    *)
(* A spectrum is kept as the non-zero taps <<k, v>> of the zero-prepended  *)
(* partition it is the transform of.  Buffers are sequences; Go index i is *)
(* element i + 1.  The scratch buffers of a stage (signalFreq, convolved,  *)
(* convolvedTime) are written before they are read in every call and are   *)
(* not kept.                                                               *)

\* engines under test: IR length, orders, and the IR's non-zero samples
Configs ==
  << [irLen |-> 1, minOrd |-> 6, maxOrd |-> 6,
      taps |-> << <<0, 3>> >>],
     [irLen |-> 100, minOrd |-> 6, maxOrd |-> 9,
      taps |-> << <<0, 2>>, <<63, 0 - 1>>, <<64, 5>>, <<99, 7>> >>],
     [irLen |-> 300, minOrd |-> 6, maxOrd |-> 9,
      taps |-> << <<0, 1>>, <<63, 2>>, <<64, 0 - 3>>, <<191, 4>>,
                  <<192, 5>>, <<299, 0 - 2>> >>],
     [irLen |-> 300, minOrd |-> 6, maxOrd |-> 6,
      taps |-> << <<0, 1>>, <<63, 2>>, <<64, 0 - 3>>, <<191, 4>>,
                  <<192, 5>>, <<299, 0 - 2>> >>],
     [irLen |-> 130, minOrd |-> 7, maxOrd |-> 8,
      taps |-> << <<0, 1>>, <<127, 2>>, <<128, 3>>, <<129, 0 - 1>> >>],
     [irLen |-> 200, minOrd |-> 6, maxOrd |-> 9,
      taps |-> << <<0, 2>>, <<64, 0 - 1>>, <<128, 3>>, <<199, 1>> >>],
     [irLen |-> 700, minOrd |-> 6, maxOrd |-> 9,
      taps |-> << <<0, 1>>, <<64, 2>>, <<191, 0 - 1>>, <<192, 3>>,
                  <<447, 0 - 2>>, <<448, 1>>, <<699, 2>> >>] >>

\* input streams: a unit impulse, and a dense pattern
Streams == {1, 2}
Sample(s, n) ==
  IF s = 1 THEN (IF n = 0 THEN 1 ELSE 0)
  ELSE ((n * n + 3 * n) % 7) - 3

\* block sizes handed to ProcessBlock
BlockSizes == {24, 64, 200}

Zeros(n) == [i \in 1 .. n |-> 0]

\* the IR of configuration c as a sample sequence
RECURSIVE TapAt(_, _, _)
TapAt(taps, i, n) ==
  IF i > Len(taps) THEN 0
  ELSE IF taps[i][1] = n THEN taps[i][2]
  ELSE TapAt(taps, i + 1, n)

ImpulseResponse(c) ==
  [i \in 1 .. Configs[c].irLen |-> TapAt(Configs[c].taps, 1, i - 1)]

\* calculatePaddedIRSize
calculatePaddedIRSize(irSize, minOrd) ==
  IF irSize = 0 THEN 0
  ELSE ((irSize + 2 ^ minOrd - 1) \div 2 ^ minOrd) * 2 ^ minOrd

\* bitCountToBits: (2 << bitCount) - 1
bitCountToBits(bitCount) == 2 ^ (bitCount + 1) - 1

\* truncLog2: floor(log2(n)), 0 for n <= 0
RECURSIVE truncLog2(_)
truncLog2(n) == IF n <= 1 THEN 0 ELSE 1 + truncLog2(n \div 2)

\* (x & (1 << order)) >> order, for x >= 0
Bit(x, order) == (x \div 2 ^ order) % 2

\* NewConvolutionStage
NewConvolutionStage(irOrder, startPos, latency, count) ==
  [fftOrder |-> irOrder,
   fftSize |-> 2 ^ (irOrder + 1),
   fftSizeHalf |-> 2 ^ irOrder,
   outputPos |-> startPos,
   latency |-> latency,
   mod |-> 0,
   modAnd |-> 0,
   irSpectrums |-> [b \in 1 .. count |-> <<>>]]

\* the stages partitionIR creates for orders order .. maxIROrd
RECURSIVE StagesFrom(_, _, _, _, _)
StagesFrom(order, maxIROrd, startPos, resIRSize, latency) ==
  IF order < maxIROrd
  THEN LET count == 1 + Bit(resIRSize, order)
       IN <<NewConvolutionStage(order, startPos, latency, count)>>
            \o StagesFrom(order + 1, maxIROrd, startPos + count * 2 ^ order,
                          resIRSize - (count - 1) * 2 ^ order, latency)
  ELSE <<NewConvolutionStage(maxIROrd, startPos, latency,
                             1 + resIRSize \div 2 ^ maxIROrd)>>

\* a top order that is clipped but never lowered
MaxIROrderNotLowered(irSizePadded, minOrd, maxOrd) ==
  LET first == truncLog2(irSizePadded + 2 ^ minOrd) - 1
  IN IF first > maxOrd THEN maxOrd ELSE first

\* the highest stage order partitionIR settles on
MaxIROrder(irSizePadded, minOrd, maxOrd) ==
  LET first == truncLog2(irSizePadded + 2 ^ minOrd) - 1
      res == irSizePadded - (bitCountToBits(first) - bitCountToBits(minOrd - 1))
      lowered == IF Bit(res, first) = 0 /\ first > minOrd
                 THEN first - 1 ELSE first
  IN IF lowered > maxOrd THEN maxOrd ELSE lowered

\* a partitionIR that does not recalculate the residual after the top order
\* was lowered or clipped
partitionIRStaleResidual(irSizePadded, minOrd, maxOrd) ==
  LET first == truncLog2(irSizePadded + 2 ^ minOrd) - 1
      resIRSize == irSizePadded
                     - (bitCountToBits(first) - bitCountToBits(minOrd - 1))
  IN StagesFrom(minOrd, MaxIROrder(irSizePadded, minOrd, maxOrd), 0,
                resIRSize, 2 ^ minOrd)

\* partitionIR: the stages, without their spectra
partitionIR(irSizePadded, minOrd, maxOrd) ==
  LET maxIROrd == MaxIROrder(irSizePadded, minOrd, maxOrd)
      resIRSize == irSizePadded
                     - (bitCountToBits(maxIROrd) - bitCountToBits(minOrd - 1))
  IN StagesFrom(minOrd, maxIROrd, 0, resIRSize, 2 ^ minOrd)

\* the non-zero taps of a zero-prepended partition at the indexes in S, in
\* index order
RECURSIVE TapsOf(_, _)
TapsOf(tempIR, S) ==
  IF S = {} THEN <<>>
  ELSE LET k == CHOOSE m \in S : \A o \in S : m <= o
       IN <<<<k, tempIR[k + 1]>>>> \o TapsOf(tempIR, S \ {k})

\* CalculateIRSpectrums: the scheduling mask and, per block, the transform
\* of [zeros(fftSizeHalf), IR[srcStart .. srcEnd), zero padding]
CalculateIRSpectrums(s, paddedIR) ==
  [s EXCEPT
     !.modAnd = (s.fftSizeHalf \div s.latency) - 1,
     !.irSpectrums =
        [b \in 1 .. Len(s.irSpectrums) |->
           LET srcStart == s.outputPos + (b - 1) * s.fftSizeHalf
               tempIR == [k \in 1 .. s.fftSize |->
                            IF k <= s.fftSizeHalf THEN 0
                            ELSE IF srcStart + (k - s.fftSizeHalf) <= Len(paddedIR)
                            THEN paddedIR[srcStart + (k - s.fftSizeHalf)]
                            ELSE 0]
           IN TapsOf(tempIR, {k \in 0 .. s.fftSize - 1 : tempIR[k + 1] # 0})]]

\* NewLowLatencyConvolutionEngine for valid parameters
NewLowLatencyConvolutionEngine(ir, minOrd, maxOrd) ==
  LET irSizePadded == calculatePaddedIRSize(Len(ir), minOrd)
      bare == partitionIR(irSizePadded, minOrd, maxOrd)
      maxIROrd == bare[Len(bare)].fftOrder
      paddedIR == ir \o Zeros(irSizePadded - Len(ir))
      latency == 2 ^ minOrd
  IN [irSize |-> Len(ir),
      irSizePadded |-> irSizePadded,
      minBlockOrder |-> minOrd,
      maxBlockOrder |-> maxOrd,
      latency |-> latency,
      inputBufferSize |-> 2 ^ (maxIROrd + 1),
      inputHistorySize |-> 2 ^ (maxIROrd + 1) - latency,
      outputHistorySize |-> irSizePadded - latency,
      inputBuffer |-> Zeros(2 ^ (maxIROrd + 1)),
      outputBuffer |-> Zeros(irSizePadded),
      blockPosition |-> 0,
      stages |-> [k \in 1 .. Len(bare) |->
                    CalculateIRSpectrums(bare[k], paddedIR)]]

\* one output sample of the circular convolution of x (length n) with the
\* partition whose taps are given: sum of v * x[(i - k) mod n]
RECURSIVE CircConv(_, _, _, _, _)
CircConv(taps, j, x, n, i) ==
  IF j > Len(taps) THEN 0
  ELSE taps[j][2] * x[((i - taps[j][1]) % n) + 1]
         + CircConv(taps, j + 1, x, n, i)

\* an output position that leaves out "- s.fftSizeHalf"
OutPosFromStart(s, blockIdx) ==
  s.outputPos + s.latency + blockIdx * s.fftSizeHalf
\* where block blockIdx of a stage is overlap-added in the output buffer
OutPosNoLatency(s, blockIdx) == s.outputPos + blockIdx * s.fftSizeHalf
OutPos(s, blockIdx) ==
  s.outputPos + s.latency - s.fftSizeHalf + blockIdx * s.fftSizeHalf

\* the overlap-add of blocks b .. count of a running stage
RECURSIVE AddBlocks(_, _, _, _)
AddBlocks(s, b, x, signalOut) ==
  IF b > Len(s.irSpectrums) THEN signalOut
  ELSE LET outPos == OutPos(s, b - 1)
           half == s.fftSizeHalf
           added ==
             IF outPos >= 0 /\ outPos + half <= Len(signalOut)
             THEN [i \in 1 .. Len(signalOut) |->
                     IF i > outPos /\ i <= outPos + half
                     THEN signalOut[i]
                            + CircConv(s.irSpectrums[b], 1, x, s.fftSize,
                                       i - outPos - 1)
                     ELSE signalOut[i]]
             ELSE signalOut
       IN AddBlocks(s, b + 1, x, added)

\* a PerformConvolution that advances its counter with mask 2 * modAnd + 1
PerformConvolutionHalfRate(s, signalIn, signalOut) ==
  [stage |-> [s EXCEPT !.mod = (s.mod + 1) % (2 * s.modAnd + 2)],
   signalOut |->
     IF s.mod = 0
     THEN AddBlocks(s, 1,
                    SubSeq(signalIn, Len(signalIn) - s.fftSize + 1,
                           Len(signalIn)),
                    signalOut)
     ELSE signalOut]

\* PerformConvolution: the stage (its counter advanced) and the output buffer
PerformConvolution(s, signalIn, signalOut) ==
  [stage |-> [s EXCEPT !.mod = (s.mod + 1) % (s.modAnd + 1)],
   signalOut |->
     IF s.mod = 0
     THEN AddBlocks(s, 1,
                    SubSeq(signalIn, Len(signalIn) - s.fftSize + 1,
                           Len(signalIn)),
                    signalOut)
     ELSE signalOut]

\* "for _, stage := range e.stages { stage.PerformConvolution(...) }"
RECURSIVE RunStages(_, _, _, _)
RunStages(stages, k, signalIn, signalOut) ==
  IF k > Len(stages) THEN [stages |-> stages, signalOut |-> signalOut]
  ELSE LET r == PerformConvolution(stages[k], signalIn, signalOut)
       IN RunStages([stages EXCEPT ![k] = r.stage], k + 1, signalIn,
                    r.signalOut)

\* copy(dst[at:], src) on a buffer
CopyAt(dst, at, src) ==
  [i \in 1 .. Len(dst) |->
     IF i > at /\ i <= at + Len(src) THEN src[i - at] ELSE dst[i]]

\* the end of a latency block: shift the output buffer and zero its tail,
\* run the stages, shift the input buffer, rewind the block position
CompleteBlock(e) ==
  LET shifted == SubSeq(e.outputBuffer, e.latency + 1,
                        e.latency + e.outputHistorySize)
                   \o Zeros(Len(e.outputBuffer) - e.outputHistorySize)
      r == RunStages(e.stages, 1, e.inputBuffer, shifted)
  IN [e EXCEPT
        !.outputBuffer = r.signalOut,
        !.stages = r.stages,
        !.inputBuffer = CopyAt(e.inputBuffer, 0,
                               SubSeq(e.inputBuffer, e.latency + 1,
                                      e.latency + e.inputHistorySize)),
        !.blockPosition = 0]

\* ProcessBlock: the loop from currentPos on
RECURSIVE ProcessBlockFrom(_, _, _, _)
ProcessBlockFrom(e, input, currentPos, output) ==
  IF currentPos >= Len(input) THEN [eng |-> e, output |-> output]
  ELSE LET remaining == Len(input) - currentPos
           n == IF e.blockPosition + remaining < e.latency
                THEN remaining
                ELSE e.latency - e.blockPosition
           filled == [e EXCEPT !.inputBuffer =
                        CopyAt(e.inputBuffer,
                               e.inputHistorySize + e.blockPosition,
                               SubSeq(input, currentPos + 1, currentPos + n))]
           produced == output \o SubSeq(e.outputBuffer, e.blockPosition + 1,
                                        e.blockPosition + n)
       IN IF e.blockPosition + remaining < e.latency
          THEN [eng |-> [filled EXCEPT !.blockPosition = @ + remaining],
                output |-> produced]
          ELSE ProcessBlockFrom(CompleteBlock(filled), input, currentPos + n,
                                produced)

ProcessBlock(e, input) == ProcessBlockFrom(e, input, 0, <<>>)

\* ProcessSample32
ProcessSample32FirstOut(e, input) ==
  LET filled == [e EXCEPT
                   !.inputBuffer[e.inputHistorySize + e.blockPosition + 1] = input,
                   !.blockPosition = @ + 1]
  IN [eng |-> IF filled.blockPosition >= e.latency
              THEN CompleteBlock(filled) ELSE filled,
      output |-> e.outputBuffer[1]]

ProcessSample32(e, input) ==
  LET filled == [e EXCEPT
                   !.inputBuffer[e.inputHistorySize + e.blockPosition + 1] = input,
                   !.blockPosition = @ + 1]
  IN [eng |-> IF filled.blockPosition >= e.latency
              THEN CompleteBlock(filled) ELSE filled,
      output |-> e.outputBuffer[e.blockPosition + 1]]

\* ConvolutionStage.Reset
StageReset(s) == [s EXCEPT !.mod = 0]

\* LowLatencyConvolutionEngine.Reset
ResetKeepsInput(e) ==
  [e EXCEPT !.outputBuffer = Zeros(Len(e.outputBuffer)),
            !.blockPosition = 0,
            !.stages = [k \in 1 .. Len(e.stages) |-> StageReset(e.stages[k])]]

Reset(e) ==
  [e EXCEPT !.inputBuffer = Zeros(Len(e.inputBuffer)),
            !.outputBuffer = Zeros(Len(e.outputBuffer)),
            !.blockPosition = 0,
            !.stages = [k \in 1 .. Len(e.stages) |-> StageReset(e.stages[k])]]

\* the engine of configuration c, freshly constructed
FreshEngine(c) ==
  NewLowLatencyConvolutionEngine(ImpulseResponse(c), Configs[c].minOrd,
                                 Configs[c].maxOrd)

\* samples from .. from + n - 1 of stream s
Input(s, from, n) == [i \in 1 .. n |-> Sample(s, from + i - 1)]

\* a coordinator that is constructed and left alone, and no library
InitReverbIdle ==
  /\ NewConvolutionReverb(DefaultSampleRate, NumChannels, "lowlatency")
  /\ snap = NoSnap
  /\ InitLibraryIdle
  /\ listeners = {}
  /\ mu = [w |-> "none", r |-> {}]
  /\ pc = [t \in Threads |-> "idle"]
  /\ loc = [t \in Threads |-> IdleLoc]
  /\ jobs = [i \in WorkerIds |-> FreeJob]
  /\ pending = <<>>
  /\ heard = <<>>
  /\ fault = "none"
  /\ wLast = "none"
  /\ lastSwitch = NoIR

InitEngine ==
  /\ cfg \in 1 .. Len(Configs)
  /\ LowLatencyParamsOK(Configs[cfg].irLen, Configs[cfg].minOrd,
                        Configs[cfg].maxOrd)
  /\ sid \in Streams
  /\ eng = FreshEngine(cfg)
  /\ fed = 0
  /\ out = <<>>
  /\ calls = 0
  /\ resets = 0
  /\ trail = {}
  /\ InitReverbIdle

\* the caller resets an engine whose call returned an error before it uses
\* the engine again
NoError == "error" \notin trail

\* e.ProcessBlock(input, output) on the next n samples of the stream
Engine_ProcessBlock(n) ==
  /\ NoError
  /\ calls < MaxCalls
  /\ LET r == ProcessBlock(eng, Input(sid, fed, n))
     IN /\ eng' = r.eng
        /\ out' = out \o r.output
  /\ fed' = fed + n
  /\ calls' = calls + 1
  /\ trail' = trail \cup {"ProcessBlock"}
  /\ UNCHANGED <<cfg, sid, resets, cvars, lvars, hvars>>

\* e.ProcessSample32(x) on the next sample of the stream
Engine_ProcessSample32 ==
  /\ NoError
  /\ calls < MaxCalls
  /\ LET r == ProcessSample32(eng, Sample(sid, fed))
     IN /\ eng' = r.eng
        /\ out' = Append(out, r.output)
  /\ fed' = fed + 1
  /\ calls' = calls + 1
  /\ trail' = trail \cup {"ProcessSample32"}
  /\ UNCHANGED <<cfg, sid, resets, cvars, lvars, hvars>>

\* e.Reset(); the caller then starts any stream from its beginning
Engine_Reset(s) ==
  /\ resets < MaxResets
  /\ calls > 0
  /\ eng' = Reset(eng)
  /\ sid' = s
  /\ fed' = 0
  /\ out' = <<>>
  /\ trail' = IF eng.blockPosition > 0 THEN {"ResetPartial"} ELSE {"Reset"}
  /\ resets' = resets + 1
  /\ UNCHANGED <<cfg, calls, cvars, lvars, hvars>>

NextEngine ==
  \/ \E n \in BlockSizes : Engine_ProcessBlock(n)
  \/ Engine_ProcessSample32
  \/ \E s \in Streams : Engine_Reset(s)

SpecEngine == InitEngine /\ [][NextEngine]_vars

----------------------------------------------------------------------------
(* The engine when a stage's FFT plan returns an error                     *)

\* PerformConvolution on a stage whose fftPlan.Forward returns an error: the
\* error leaves before the overlap-add and before the counter update; with
\* mod # 0 the plan is not called and the counter advances as usual
PerformConvolutionFailing(s, signalIn, signalOut) ==
  IF s.mod = 0
  THEN [err |-> TRUE, stage |-> s, signalOut |-> signalOut]
  ELSE [err |-> FALSE,
        stage |-> [s EXCEPT !.mod = (s.mod + 1) % (s.modAnd + 1)],
        signalOut |-> signalOut]

\* the stage loop with a failing plan in stage f: "if err != nil { return }"
RECURSIVE RunStagesFailing(_, _, _, _, _)
RunStagesFailing(stages, k, signalIn, signalOut, f) ==
  IF k > Len(stages)
  THEN [err |-> FALSE, stages |-> stages, signalOut |-> signalOut]
  ELSE LET r == IF k = f
                THEN PerformConvolutionFailing(stages[k], signalIn, signalOut)
                ELSE [err |-> FALSE] @@
                     PerformConvolution(stages[k], signalIn, signalOut)
       IN IF r.err
          THEN [err |-> TRUE, stages |-> stages, signalOut |-> signalOut]
          ELSE RunStagesFailing([stages EXCEPT ![k] = r.stage], k + 1,
                                signalIn, r.signalOut, f)

\* the end of a latency block with a failing plan in stage f: on the error
\* the output buffer is shifted and partly accumulated, the stages before f
\* have advanced, the input buffer is not shifted and the block position is
\* not rewound
CompleteBlockFailing(e, f) ==
  LET shifted == SubSeq(e.outputBuffer, e.latency + 1,
                        e.latency + e.outputHistorySize)
                   \o Zeros(Len(e.outputBuffer) - e.outputHistorySize)
      r == RunStagesFailing(e.stages, 1, e.inputBuffer, shifted, f)
  IN IF r.err
     THEN [err |-> TRUE,
           eng |-> [e EXCEPT !.outputBuffer = r.signalOut,
                             !.stages = r.stages]]
     ELSE [err |-> FALSE,
           eng |-> [e EXCEPT
                      !.outputBuffer = r.signalOut,
                      !.stages = r.stages,
                      !.inputBuffer =
                         CopyAt(e.inputBuffer, 0,
                                SubSeq(e.inputBuffer, e.latency + 1,
                                       e.latency + e.inputHistorySize)),
                      !.blockPosition = 0]]

\* ProcessBlock with a failing plan in stage f: the loop from currentPos on
RECURSIVE ProcessBlockFailingFrom(_, _, _, _)
ProcessBlockFailingFrom(e, input, currentPos, f) ==
  IF currentPos >= Len(input) THEN [err |-> FALSE, eng |-> e]
  ELSE LET remaining == Len(input) - currentPos
           n == IF e.blockPosition + remaining < e.latency
                THEN remaining
                ELSE e.latency - e.blockPosition
           filled == [e EXCEPT !.inputBuffer =
                        CopyAt(e.inputBuffer,
                               e.inputHistorySize + e.blockPosition,
                               SubSeq(input, currentPos + 1, currentPos + n))]
       IN IF e.blockPosition + remaining < e.latency
          THEN [err |-> FALSE,
                eng |-> [filled EXCEPT !.blockPosition = @ + remaining]]
          ELSE LET c == CompleteBlockFailing(filled, f)
               IN IF c.err THEN c
                  ELSE ProcessBlockFailingFrom(c.eng, input, currentPos + n,
                                               f)

ProcessBlockFailing(e, input, f) == ProcessBlockFailingFrom(e, input, 0, f)

\* ProcessSample32 with a failing plan in stage f
ProcessSample32Failing(e, input, f) ==
  LET filled == [e EXCEPT
                   !.inputBuffer[e.inputHistorySize + e.blockPosition + 1] = input,
                   !.blockPosition = @ + 1]
  IN IF filled.blockPosition >= e.latency
     THEN CompleteBlockFailing(filled, f)
     ELSE [err |-> FALSE, eng |-> filled]

\* engines, block sizes and failing stages of the fault runs
FaultConfigs == {1, 3}
FaultBlockSizes == {24, 63}
FaultStages == {1, 2, 3}

InitEngineFault == InitEngine /\ cfg \in FaultConfigs

\* e.ProcessBlock(input, output) returns "stage convolution failed"
Engine_ProcessBlockFails(n, f) ==
  /\ NoError
  /\ calls < MaxCalls
  /\ LET r == ProcessBlockFailing(eng, Input(sid, fed, n), f)
     IN /\ r.err
        /\ eng' = r.eng
  /\ calls' = calls + 1
  /\ trail' = trail \cup {"error", "ProcessBlock"}
  /\ UNCHANGED <<cfg, sid, fed, out, resets, cvars, lvars, hvars>>

\* e.ProcessSample32(x) returns "stage convolution failed"
Engine_ProcessSample32Fails(f) ==
  /\ NoError
  /\ calls < MaxCalls
  /\ LET r == ProcessSample32Failing(eng, Sample(sid, fed), f)
     IN /\ r.err
        /\ eng' = r.eng
  /\ calls' = calls + 1
  /\ trail' = trail \cup {"error", "ProcessSample32"}
  /\ UNCHANGED <<cfg, sid, fed, out, resets, cvars, lvars, hvars>>

NextEngineFault ==
  \/ \E n \in FaultBlockSizes : Engine_ProcessBlock(n)
  \/ Engine_ProcessSample32
  \/ \E s \in Streams : Engine_Reset(s)
  \/ \E n \in FaultBlockSizes, f \in FaultStages :
        Engine_ProcessBlockFails(n, f)
  \/ \E f \in FaultStages : Engine_ProcessSample32Fails(f)

SpecEngineFault == InitEngineFault /\ [][NextEngineFault]_vars

----------------------------------------------------------------------------
(* The overlap-add engine (dsp.OverlapAddEngine), in exact integer         *)
(* arithmetic: forward FFT, product with the IR spectrum and inverse FFT   *)
(* are the circular convolution of the zero-padded block with the          *)
(* zero-padded IR over fftSize points.                                     *)

\* nextPowerOf2
RECURSIVE nextPowerOf2From(_, _)
nextPowerOf2From(p, n) == IF p < n THEN nextPowerOf2From(2 * p, n) ELSE p
nextPowerOf2(n) == IF n <= 1 THEN 1 ELSE nextPowerOf2From(1, n)

\* NewOverlapAddEngine for an IR of at least one sample; irPadded stands
\* for irFFT, the spectrum of the IR zero-padded to fftSize
NewOverlapAddEngine(ir, blockSize) ==
  LET irLen == Len(ir)
      first == nextPowerOf2(2 * blockSize - 1)
      fftSize == IF first < irLen THEN nextPowerOf2(irLen) ELSE first
  IN [fftSize |-> fftSize,
      blockSize |-> blockSize,
      irLen |-> irLen,
      irPadded |-> [i \in 1 .. fftSize |-> IF i <= irLen THEN ir[i] ELSE 0],
      overlapBuffer |-> Zeros(irLen - 1)]

\* sum over j = from .. Len(input) of input[j] * irPadded[(i - j) mod fftSize]
\* (i and j counted from 0)
RECURSIVE CircularAt(_, _, _, _)
CircularAt(e, input, i, j) ==
  IF j > Len(input) THEN 0
  ELSE input[j] * e.irPadded[((i - (j - 1)) % e.fftSize) + 1]
         + CircularAt(e, input, i, j + 1)

\* timeDomainOut after the inverse FFT
timeDomainOut(e, input) ==
  [i \in 1 .. e.fftSize |-> CircularAt(e, input, i - 1, 1)]

\* the overlap buffer a call saves for the next one: the whole buffer is
\* overwritten from timeDomainOut[len(input) : len(input) + overlapLen]
SavedOverlapReplacing(e, input, tdo) ==
  [i \in 1 .. Len(e.overlapBuffer) |-> tdo[Len(input) + i]]

\* OverlapAddEngine.ProcessBlock: res is "ok", "panic: block size" (the
\* input is longer than blockSize) or "panic: slice bounds" (the slice of
\* timeDomainOut saved as overlap ends behind its capacity)
OverlapAddProcessBlock(e, input) ==
  IF Len(input) > e.blockSize
  THEN [res |-> "panic: block size", eng |-> e, output |-> <<>>]
  ELSE LET tdo == timeDomainOut(e, input)
           output ==
             [i \in 1 .. Len(input) |->
                (IF i <= Len(e.overlapBuffer) THEN e.overlapBuffer[i] ELSE 0)
                  + tdo[i]]
           resultLen == Len(input) + e.irLen - 1
           overlapLen ==
             IF resultLen - Len(input) > Len(e.overlapBuffer)
             THEN Len(e.overlapBuffer) ELSE resultLen - Len(input)
       IN IF resultLen > Len(input) /\ Len(input) + overlapLen > e.fftSize
          THEN [res |-> "panic: slice bounds", eng |-> e, output |-> <<>>]
          ELSE [res |-> "ok",
                eng |-> [e EXCEPT !.overlapBuffer =
                           SavedOverlapReplacing(e, input, tdo)],
                output |-> output]

\* engines under test: the IR and block size of TestOverlapAddConsistency
\* (in tenths), a one-sample IR, an IR shorter than the block, and an IR
\* longer than the block
OverlapAddConfigs ==
  << [ir |-> <<7, 2, 1>>, blockSize |-> 2],
     [ir |-> <<3>>, blockSize |-> 2],
     [ir |-> <<1, 0 - 2>>, blockSize |-> 3],
     [ir |-> <<1, 2, 3, 4>>, blockSize |-> 2] >>

\* lengths of the blocks handed to ProcessBlock
OverlapAddBlockLens == 0 .. 4

InitOverlapAdd ==
  /\ cfg \in 1 .. Len(OverlapAddConfigs)
  /\ sid \in Streams
  /\ eng = NewOverlapAddEngine(OverlapAddConfigs[cfg].ir,
                               OverlapAddConfigs[cfg].blockSize)
  /\ fed = 0
  /\ out = <<>>
  /\ calls = 0
  /\ resets = 0
  /\ trail = {}
  /\ InitReverbIdle

\* the call in r took place: its output, or the panic, and whether its
\* block was shorter than the overlap buffer
Returns(r, n) ==
  /\ eng' = r.eng
  /\ out' = out \o r.output
  /\ fed' = fed + n
  /\ calls' = calls + 1
  /\ trail' = trail \cup (IF r.res = "ok" THEN {} ELSE {r.res})
                    \cup (IF n < Len(eng.overlapBuffer)
                          THEN {"short block"} ELSE {})

\* e.ProcessBlock(input) on the next n samples of the stream; a caller does
\* not use an engine again after a panic
OverlapAdd_ProcessBlock(n) ==
  /\ \A t \in trail : t = "short block"
  /\ calls < MaxCalls
  /\ Returns(OverlapAddProcessBlock(eng, Input(sid, fed, n)), n)
  /\ UNCHANGED <<cfg, sid, resets, cvars, lvars, hvars>>

NextOverlapAdd == \E n \in OverlapAddBlockLens : OverlapAdd_ProcessBlock(n)

SpecOverlapAdd == InitOverlapAdd /\ [][NextOverlapAdd]_vars

----------------------------------------------------------------------------
(* The IR library format (package irformat) and package f16                *)
(*                                                                         *)
(* A file is the sequence of the fields written to it.  A field is         *)
(* [k |-> kind, v |-> value]: "id" a 4-byte chunk id, "u16" "u32" "u64"    *)
(* little-endian integers, "f64" the bits of a float64, "str" the bytes of *)
(* a string, "f16" a run of half-precision samples, "part" what is left of *)
(* a field the file was cut in.  Offsets are byte offsets, as in the code. *)

MagicNumber == "IRLB"
CurrentVersion == 1
ChunkTypeIR == "IR--"
ChunkTypeIndex == "INDX"
ChunkTypeMeta == "META"
ChunkTypeAudio == "AUDI"
FileHeaderSize == 18
ChunkHeaderSize == 12
SubChunkHeaderSize == 8

\* uint32(x) of a Go int: the value itself when it is not negative (values
\* of 2^31 and more do not occur here), and 2^32 + x, kept symbolic, when
\* it is
Uint32(x) == IF x >= 0 THEN x ELSE <<"2^32 +", x>>

\* a float32 as sign, biased exponent and 23-bit mantissa
F32(s, e, m) == [s |-> s, e |-> e, m |-> m]

\* float32ToF16: the 16 bits of the half-precision value
float32ToF16(value) ==
  LET sign == value.s
      exponent == value.e
      mantissa == value.m
      inf == sign * 32768 + 31744
      newExponent == exponent - 127 + 15
      roundedMantissa == (mantissa + 4096) \div 8192
  IN IF exponent = 255
     THEN IF mantissa = 0 THEN inf
          ELSE inf + ((mantissa \div 8192) % 1024)
     ELSE IF exponent = 0 THEN sign * 32768
     ELSE IF newExponent >= 31 THEN inf
     ELSE IF newExponent <= 0 THEN sign * 32768
     ELSE IF roundedMantissa > 1023
     THEN IF newExponent + 1 >= 31 THEN inf
          ELSE sign * 32768 + (newExponent + 1) * 1024
     ELSE sign * 32768 + newExponent * 1024 + roundedMantissa

\* f16ToFloat32
f16ToFloat32(bits) ==
  LET sign == (bits \div 32768) % 2
      exponent == (bits \div 1024) % 32
      mantissa == bits % 1024
  IN IF exponent = 31
     THEN IF mantissa = 0 THEN F32(sign, 255, 0)
          ELSE F32(sign, 255,
                   IF mantissa >= 512 THEN mantissa * 8192
                   ELSE 4194304 + mantissa * 8192)
     ELSE IF exponent = 0
     THEN IF mantissa = 0 THEN F32(sign, 0, 0)
          ELSE F32(sign, 1 - 15 + 127, mantissa * 8192)
     ELSE F32(sign, exponent - 15 + 127, mantissa * 8192)

\* Float32ToF16Interleaved: ch0_s0, ch1_s0, ..., ch0_s1, ...; "panic" when
\* the channels differ in length
Float32ToF16Interleaved(chans) ==
  IF Len(chans) = 0 THEN <<>>
  ELSE IF \E i \in 1 .. Len(chans) : Len(chans[i]) # Len(chans[1])
  THEN "panic"
  ELSE [idx \in 1 .. Len(chans) * Len(chans[1]) |->
          float32ToF16(chans[((idx - 1) % Len(chans)) + 1]
                            [((idx - 1) \div Len(chans)) + 1])]

\* F16ToFloat32Deinterleaved: "panic" on a channel count <= 0 or one that
\* does not divide the number of samples
F16ToFloat32Deinterleaved(data, nch) ==
  IF nch <= 0 THEN "panic"
  ELSE IF Len(data) % nch # 0 THEN "panic"
  ELSE [ch \in 1 .. nch |->
          [sample \in 1 .. Len(data) \div nch |->
             f16ToFloat32(data[(sample - 1) * nch + ch])]]

\* ---- fields and byte offsets

Field(k, v) == [k |-> k, v |-> v]

FieldSize(t) ==
  CASE t.k = "id" -> 4
    [] t.k = "u16" -> 2
    [] t.k = "u32" -> 4
    [] t.k = "u64" -> 8
    [] t.k = "f64" -> 8
    [] t.k = "str" -> Len(t.v)
    [] t.k = "f16" -> 2 * Len(t.v)
    [] t.k = "part" -> t.v

\* the bytes of fields 1 .. n of f
RECURSIVE SizeOf(_, _)
SizeOf(f, n) == IF n = 0 THEN 0 ELSE SizeOf(f, n - 1) + FieldSize(f[n])

\* field i of f starts at byte pos: the field that starts at the offset
RECURSIVE SeekFrom(_, _, _, _)
SeekFrom(f, offset, i, pos) ==
  IF i > Len(f) THEN Len(f) + 1
  ELSE IF pos = offset THEN i
  ELSE IF pos > offset THEN 0
  ELSE SeekFrom(f, offset, i + 1, pos + FieldSize(f[i]))

\* Seek(offset, io.SeekStart): the field that starts at the offset;
\* Len(f) + 1 at or past the end; 0 inside a field
Seek(f, offset) == SeekFrom(f, offset, 1, 0)

\* a length-prefixed string: uint16(len(s)), then its bytes
StringFields(str) ==
  <<Field("u16", Len(str) % 65536)>>
    \o (IF Len(str) = 0 THEN <<>> ELSE <<Field("str", str)>>)

RECURSIVE TagFields(_)
TagFields(tags) ==
  IF tags = <<>> THEN <<>>
  ELSE StringFields(Head(tags)) \o TagFields(Tail(tags))

\* ---- Writer

\* buildMetadataSubChunk
buildMetadataSubChunk(meta) ==
  LET body == <<Field("f64", meta.SampleRate),
                Field("u32", Uint32(meta.Channels)),
                Field("u32", Uint32(meta.Length))>>
                \o StringFields(meta.Name)
                \o StringFields(meta.Description)
                \o StringFields(meta.Category)
                \o <<Field("u16", Len(meta.Tags) % 65536)>>
                \o TagFields(meta.Tags)
  IN <<Field("id", ChunkTypeMeta),
       Field("u32", Uint32(SizeOf(body, Len(body))))>> \o body

\* buildAudioSubChunk
buildAudioSubChunk(audio) ==
  LET f16Data == Float32ToF16Interleaved(audio)
  IN <<Field("id", ChunkTypeAudio),
       Field("u32", Uint32(2 * Len(f16Data)))>>
       \o (IF Len(f16Data) = 0 THEN <<>> ELSE <<Field("f16", f16Data)>>)

\* one index entry of buildIndexChunk
IndexEntryFields(offset, meta) ==
  <<Field("u64", offset),
    Field("f64", meta.SampleRate),
    Field("u32", Uint32(meta.Channels)),
    Field("u32", Uint32(meta.Length))>>
    \o StringFields(meta.Name)
    \o StringFields(meta.Category)

\* buildIndexChunk
RECURSIVE buildIndexChunk(_, _, _)
buildIndexChunk(irOffsets, irMetas, i) ==
  IF i > Len(irMetas) THEN <<>>
  ELSE IndexEntryFields(irOffsets[i], irMetas[i])
         \o buildIndexChunk(irOffsets, irMetas, i + 1)

\* where the chunk that starts at pos ends, without its header counted
ChunkEndNoHeader(pos, chunkSize) == pos + chunkSize

\* "w.currentPos += ChunkHeaderSize + chunkSize"
ChunkEnd(pos, chunkSize) == pos + ChunkHeaderSize + chunkSize

\* WriteHeader(irCount)
WriteHeader(irCount) ==
  /\ wr.phase = "new"
  /\ file' = file \o <<Field("id", MagicNumber),
                       Field("u16", CurrentVersion),
                       Field("u32", Uint32(irCount)),
                       Field("u64", 0)>>
  /\ wr' = [wr EXCEPT !.phase = "header",
                      !.irCount = Uint32(irCount),
                      !.currentPos = FileHeaderSize]
  /\ UNCHANGED <<written, rd, ret, damage, cvars, gvars, hvars>>

\* the fields WriteIR appends for one IR
IRChunkFields(metaData, audioData) ==
  <<Field("id", ChunkTypeIR),
    Field("u64", SizeOf(metaData, Len(metaData))
                   + SizeOf(audioData, Len(audioData)))>>
    \o metaData \o audioData

\* WriteIR(impulseResponse)
WriteIR(ir) ==
  /\ wr.phase = "header"
  /\ Len(written) < MaxIRs
  /\ LET metaData == buildMetadataSubChunk(ir.Metadata)
         audioData == buildAudioSubChunk(ir.Audio)
         chunkSize == SizeOf(metaData, Len(metaData))
                        + SizeOf(audioData, Len(audioData))
     IN /\ file' = file \o IRChunkFields(metaData, audioData)
        /\ wr' = [wr EXCEPT !.irOffsets = Append(@, wr.currentPos),
                            !.irMetas = Append(@, ir.Metadata),
                            !.currentPos = ChunkEnd(@, chunkSize)]
  /\ written' = Append(written, ir)
  /\ UNCHANGED <<rd, ret, damage, cvars, gvars, hvars>>

\* the file Close leaves: the index chunk appended, then the index offset
\* written over the header field at byte 10
Closed(f, w) ==
  LET indexOffset == w.currentPos
      indexData == buildIndexChunk(w.irOffsets, w.irMetas, 1)
      appended == f \o <<Field("id", ChunkTypeIndex),
                         Field("u64", SizeOf(indexData, Len(indexData)))>>
                    \o indexData
  IN [appended EXCEPT ![Seek(appended, 10)] = Field("u64", indexOffset)]

\* Close()
Close ==
  /\ wr.phase = "header"
  /\ file' = Closed(file, wr)
  /\ wr' = [wr EXCEPT !.phase = "closed"]
  /\ UNCHANGED <<written, rd, ret, damage, cvars, gvars, hvars>>

\* ---- Reader

\* one field of kind k read at cursor c (a field number): "ok" with its
\* value, "eof" when the file ends before or inside it (io.ReadFull and
\* binary.Read return an error), "other" when other bytes stand there;
\* with the cursor the read leaves behind
ReadField(f, c, k) ==
  IF c >= 1 /\ c <= Len(f) /\ f[c].k = k
  THEN [st |-> "ok", v |-> f[c].v, c |-> c + 1]
  ELSE IF c > Len(f) THEN [st |-> "eof", c |-> Len(f) + 1]
  ELSE IF c >= 1 /\ f[c].k = "part" THEN [st |-> "eof", c |-> Len(f) + 1]
  ELSE [st |-> "other", c |-> c + 1]

\* every failed read is wrapped in ErrCorruptedData
ReadError(st) == IF st = "eof" THEN "ErrCorruptedData" ELSE "misread"

\* the error returned for the failed read r, with the cursor it left
ReadFailed(r) == [err |-> ReadError(r.st), c |-> r.c]

\* a chunk id read and compared with the expected one, every failure
\* reported as corrupted data
ReadChunkIDAllCorrupted(f, c, expected) ==
  LET r == ReadField(f, c, "id")
  IN IF r.st # "ok" \/ r.v # expected THEN [err |-> "ErrCorruptedData", c |-> r.c]
     ELSE [err |-> "none", c |-> r.c]

\* a chunk id read and compared with the expected one
ReadChunkID(f, c, expected) ==
  LET r == ReadField(f, c, "id")
  IN IF r.st = "eof" THEN [err |-> "ErrCorruptedData", c |-> r.c]
     ELSE IF r.st = "other" THEN [err |-> "ErrInvalidChunk", c |-> r.c]
     ELSE IF r.v # expected THEN [err |-> "ErrInvalidChunk", c |-> r.c]
     ELSE [err |-> "none", c |-> r.c]

\* consecutive binary.Read calls for the given kinds
RECURSIVE ReadFields(_, _, _, _)
ReadFields(f, c, kinds, vs) ==
  IF kinds = <<>> THEN [err |-> "none", vs |-> vs, c |-> c]
  ELSE LET r == ReadField(f, c, Head(kinds))
       IN IF r.st = "ok"
          THEN ReadFields(f, r.c, Tail(kinds), Append(vs, r.v))
          ELSE ReadFailed(r)

\* readString
readString(f, c) ==
  LET n == ReadField(f, c, "u16")
  IN IF n.st # "ok" THEN ReadFailed(n)
     ELSE IF n.v = 0 THEN [err |-> "none", v |-> "", c |-> n.c]
     ELSE LET d == ReadField(f, n.c, "str")
          IN IF d.st # "ok" THEN ReadFailed(d)
             ELSE [err |-> "none", v |-> d.v, c |-> d.c]

\* "for i := range tagCount { tag, err := r.readString() ... }"
RECURSIVE readTags(_, _, _, _)
readTags(f, c, n, tags) ==
  IF n = 0 THEN [err |-> "none", v |-> tags, c |-> c]
  ELSE LET t == readString(f, c)
       IN IF t.err # "none" THEN t
          ELSE readTags(f, t.c, n - 1, Append(tags, t.v))

\* readIndexEntry
readIndexEntry(f, c) ==
  LET h == ReadFields(f, c, <<"u64", "f64", "u32", "u32">>, <<>>)
  IN IF h.err # "none" THEN h
     ELSE LET name == readString(f, h.c)
          IN IF name.err # "none" THEN name
             ELSE LET category == readString(f, name.c)
                  IN IF category.err # "none" THEN category
                     ELSE [err |-> "none",
                           entry |-> [Offset |-> h.vs[1],
                                      SampleRate |-> h.vs[2],
                                      Channels |-> h.vs[3],
                                      Length |-> h.vs[4],
                                      Name |-> name.v,
                                      Category |-> category.v],
                           c |-> category.c]

\* "for range uint32(r.irCount) { entry, err := r.readIndexEntry() ... }"
RECURSIVE readIndexEntries(_, _, _, _)
readIndexEntries(f, c, n, index) ==
  IF n = 0 THEN [err |-> "none", index |-> index, c |-> c]
  ELSE LET e == readIndexEntry(f, c)
       IN IF e.err # "none" THEN e
          ELSE readIndexEntries(f, e.c, n - 1, Append(index, e.entry))

\* readIndex
readIndex(f, irCount, indexOffset) ==
  LET id == ReadChunkID(f, Seek(f, indexOffset), ChunkTypeIndex)
  IN IF id.err # "none" THEN id
     ELSE LET size == ReadField(f, id.c, "u64")
          IN IF size.st # "ok" THEN ReadFailed(size)
             ELSE readIndexEntries(f, size.c, irCount, <<>>)

\* readHeader
readHeader(f) ==
  LET magic == ReadField(f, 1, "id")
  IN IF magic.st = "eof" THEN [err |-> "ErrCorruptedData", c |-> magic.c]
     ELSE IF magic.st = "other" THEN [err |-> "ErrInvalidMagic", c |-> magic.c]
     ELSE IF magic.v # MagicNumber
     THEN [err |-> "ErrInvalidMagic", c |-> magic.c]
     ELSE LET version == ReadField(f, magic.c, "u16")
          IN IF version.st # "ok" THEN ReadFailed(version)
             ELSE IF version.v # CurrentVersion
             THEN [err |-> "ErrUnsupportedVersion", c |-> version.c]
             ELSE LET h == ReadFields(f, version.c, <<"u32", "u64">>, <<>>)
                  IN IF h.err # "none" THEN h
                     ELSE [err |-> "none", version |-> version.v,
                           irCount |-> h.vs[1], indexOffset |-> h.vs[2],
                           c |-> h.c]

\* NewReader: the Reader, or the error
NewReaderOn(f) ==
  LET h == readHeader(f)
  IN IF h.err # "none" THEN [state |-> "failed", err |-> h.err]
     ELSE LET x == readIndex(f, h.irCount, h.indexOffset)
          IN IF x.err # "none" THEN [state |-> "failed", err |-> x.err]
             ELSE [state |-> "open", version |-> h.version,
                   irCount |-> h.irCount, indexOffset |-> h.indexOffset,
                   index |-> x.index, pos |-> x.c]

\* readMetadataSubChunk
readMetadataSubChunk(f, c) ==
  LET id == ReadChunkID(f, c, ChunkTypeMeta)
  IN IF id.err # "none" THEN id
     ELSE LET h == ReadFields(f, id.c, <<"u32", "f64", "u32", "u32">>, <<>>)
          IN IF h.err # "none" THEN h
     ELSE LET name == readString(f, h.c)
          IN IF name.err # "none" THEN name
     ELSE LET description == readString(f, name.c)
          IN IF description.err # "none" THEN description
     ELSE LET category == readString(f, description.c)
          IN IF category.err # "none" THEN category
     ELSE LET tagCount == ReadField(f, category.c, "u16")
          IN IF tagCount.st # "ok" THEN ReadFailed(tagCount)
     ELSE LET tags == readTags(f, tagCount.c, tagCount.v, <<>>)
          IN IF tags.err # "none" THEN tags
     ELSE [err |-> "none",
           meta |-> [Name |-> name.v,
                     Description |-> description.v,
                     Category |-> category.v,
                     Tags |-> tags.v,
                     SampleRate |-> h.vs[2],
                     Channels |-> h.vs[3],
                     Length |-> h.vs[4]],
           c |-> tags.c]

\* readAudioSubChunk: the decoded channels; a sub-chunk of size 0 has no
\* bytes to read
readAudioSubChunk(f, c, nch) ==
  LET id == ReadChunkID(f, c, ChunkTypeAudio)
  IN IF id.err # "none" THEN id
     ELSE LET subChunkSize == ReadField(f, id.c, "u32")
          IN IF subChunkSize.st # "ok"
             THEN ReadFailed(subChunkSize)
     ELSE LET f16Data == IF subChunkSize.v = 0
                         THEN [st |-> "ok", v |-> <<>>,
                               c |-> subChunkSize.c]
                         ELSE ReadField(f, subChunkSize.c, "f16")
          IN IF f16Data.st # "ok" THEN ReadFailed(f16Data)
     ELSE IF nch <= 0 \/ Len(f16Data.v) % nch # 0
     THEN [err |-> "panic", c |-> f16Data.c]
     ELSE [err |-> "none",
           audio |-> F16ToFloat32Deinterleaved(f16Data.v, nch),
           c |-> f16Data.c]

\* readIRChunk
readIRChunk(f, c) ==
  LET id == ReadChunkID(f, c, ChunkTypeIR)
  IN IF id.err # "none" THEN id
     ELSE LET chunkSize == ReadField(f, id.c, "u64")
          IN IF chunkSize.st # "ok" THEN ReadFailed(chunkSize)
     ELSE LET m == readMetadataSubChunk(f, chunkSize.c)
          IN IF m.err # "none" THEN m
     ELSE LET a == readAudioSubChunk(f, m.c, m.meta.Channels)
          IN IF a.err # "none" THEN a
     ELSE [err |-> "none", ir |-> [Metadata |-> m.meta, Audio |-> a.audio],
           c |-> a.c]

\* Seek(offset, io.SeekStart) with the cursor at c: the cursor is forgotten
SeekStayingPut(f, c, offset) == c

\* "r.r.Seek(int64(entry.Offset), io.SeekStart)" with the cursor at c
SeekStart(f, c, offset) == Seek(f, offset)

\* LoadIR(index) on the open Reader r: the result, the cursor it leaves and
\* the offsets it sought
LoadIRAt(f, r, index) ==
  IF index < 0 \/ index >= Len(r.index)
  THEN [err |-> "ErrInvalidIndex", c |-> r.pos, seeks |-> <<>>]
  ELSE [seeks |-> <<r.index[index + 1].Offset>>]
         @@ readIRChunk(f, SeekStart(f, r.pos, r.index[index + 1].Offset))

\* LoadIRByName(name) falling back to the first entry on a name miss
LoadIRByNameAtOrFirst(f, r, name) ==
  IF \E i \in 1 .. Len(r.index) : r.index[i].Name = name
  THEN LoadIRAt(f, r, (CHOOSE k \in 1 .. Len(r.index) :
                         /\ r.index[k].Name = name
                         /\ \A j \in 1 .. k - 1 : r.index[j].Name # name) - 1)
  ELSE LoadIRAt(f, r, 0)

\* LoadIRByName(name) on the open Reader r: the first entry of that name
LoadIRByNameAt(f, r, name) ==
  IF \E i \in 1 .. Len(r.index) : r.index[i].Name = name
  THEN LET first == CHOOSE k \in 1 .. Len(r.index) :
                      /\ r.index[k].Name = name
                      /\ \A j \in 1 .. k - 1 : r.index[j].Name # name
       IN LoadIRAt(f, r, first - 1)
  ELSE [err |-> "ErrIRNotFound", c |-> r.pos, seeks |-> <<>>]

\* what a load returns to its caller: the IR, or the error
Returned(x) ==
  IF x.err = "none" THEN [err |-> "none", ir |-> x.ir] ELSE [err |-> x.err]

LoadIROn(f, r, index) == Returned(LoadIRAt(f, r, index))

LoadIRByNameOn(f, r, name) == Returned(LoadIRByNameAt(f, r, name))

\* ListIRs()
ListIRs == rd.index

\* NewReader(r) on the file
NewReader ==
  /\ wr.phase \in {"closed", "foreign"}
  /\ rd.state = "none"
  /\ rd' = NewReaderOn(file)
  /\ UNCHANGED <<file, wr, written, ret, damage, cvars, gvars, hvars>>

\* a load that ended with outcome x: what the caller gets, the offsets the
\* call sought, and the cursor it leaves
Loaded(call, x) ==
  /\ ret' = call @@ [res |-> Returned(x), seeks |-> x.seeks]
  /\ rd' = [rd EXCEPT !.pos = x.c]

\* reader.LoadIR(index); prev is the index of the call before it
Reader_LoadIR(index) ==
  /\ rd.state = "open"
  /\ Loaded([op |-> "LoadIR", index |-> index,
             prev |-> IF ret.op = "LoadIR" THEN ret.index ELSE 0 - 2],
            LoadIRAt(file, rd, index))
  /\ UNCHANGED <<file, wr, written, damage, cvars, gvars, hvars>>

\* reader.LoadIRByName(name)
Reader_LoadIRByName(name) ==
  /\ rd.state = "open"
  /\ Loaded([op |-> "LoadIRByName", name |-> name],
            LoadIRByNameAt(file, rd, name))
  /\ UNCHANGED <<file, wr, written, damage, cvars, gvars, hvars>>

\* ---- the libraries written and read

\* float32 samples: 1.0, -0.25, one that rounds up, one whose rounding
\* carries into the exponent, one below the half-precision range, one
\* above it
SampleOne == F32(0, 127, 0)
SampleNegQuarter == F32(1, 125, 0)
SampleRounds == F32(0, 126, 4097)
SampleCarries == F32(0, 126, 8388607)
SampleTiny == F32(0, 100, 5)
SampleHuge == F32(0, 150, 0)

IRHall ==
  [Metadata |-> [Name |-> "hall", Description |-> "large hall",
                 Category |-> "Hall", Tags |-> <<"wide", "long">>,
                 SampleRate |-> 48000, Channels |-> 2, Length |-> 2],
   Audio |-> << <<SampleOne, SampleRounds>>,
                <<SampleNegQuarter, SampleCarries>> >>]
IRClick ==
  [Metadata |-> [Name |-> "click", Description |-> "",
                 Category |-> "", Tags |-> <<>>,
                 SampleRate |-> 96000, Channels |-> 1, Length |-> 2],
   Audio |-> << <<SampleTiny, SampleHuge>> >>]
IRGap ==
  [Metadata |-> [Name |-> "gap", Description |-> "",
                 Category |-> "Test", Tags |-> <<>>,
                 SampleRate |-> 44100, Channels |-> 1, Length |-> 0],
   Audio |-> << <<>> >>]
\* NewImpulseResponse("odd", 48000, 2, data) with one channel of data
IROdd ==
  [Metadata |-> [Name |-> "odd", Description |-> "",
                 Category |-> "Test", Tags |-> <<>>,
                 SampleRate |-> 48000, Channels |-> 2, Length |-> 1],
   Audio |-> << <<SampleOne>> >>]

IRs == {IRHall, IRClick, IRGap, IROdd}

\* the metadata of an IR describe its audio
WellFormed(ir) ==
  /\ ir.Metadata.Channels = Len(ir.Audio)
  /\ \A ch \in 1 .. Len(ir.Audio) : Len(ir.Audio[ch]) = ir.Metadata.Length

\* arguments of WriteHeader, LoadIR and LoadIRByName: the names written,
\* one in another case, one never written
HeaderArgs == 0 .. MaxIRs + 1
LoadArgs == (0 - 1) .. MaxIRs
NameArgs == {"hall", "click", "gap", "odd", "Hall", "room"}

NextLibrary ==
  \/ \E irCount \in HeaderArgs : WriteHeader(irCount)
  \/ \E ir \in IRs : WriteIR(ir)
  \/ Close
  \/ NewReader
  \/ \E index \in LoadArgs : Reader_LoadIR(index)
  \/ \E name \in NameArgs : Reader_LoadIRByName(name)

InitLibrary == InitWith({}) /\ engineType = "lowlatency"

SpecLibrary == InitLibrary /\ [][NextLibrary]_vars

\* ---- damaged libraries

\* a chunk id no reader knows
UnknownID == "XTRA"

\* the bytes of one chunk id of a finalized library are overwritten, before
\* or after the reader was opened; the results of calls made on the
\* undamaged file are dropped
OverwriteChunkID ==
  /\ wr.phase = "closed"
  /\ damage = NoDamage
  /\ rd.state # "failed"
  /\ \E j \in 2 .. Len(file) :
       /\ file[j].k = "id"
       /\ file' = [file EXCEPT ![j] = Field("id", UnknownID)]
       /\ damage' = [kind |-> "id", at |-> j, orig |-> file,
                     opened |-> rd.state = "open"]
  /\ ret' = NoResult
  /\ UNCHANGED <<wr, written, rd, cvars, gvars, hvars>>

\* a finalized library loses its end, before or after the reader was
\* opened: the file stops before field j, or one byte into it
Truncate ==
  /\ wr.phase = "closed"
  /\ damage = NoDamage
  /\ rd.state # "failed"
  /\ \E j \in 1 .. Len(file), inside \in BOOLEAN :
       /\ inside => FieldSize(file[j]) > 1
       /\ file' = SubSeq(file, 1, j - 1)
                    \o (IF inside THEN <<Field("part", 1)>> ELSE <<>>)
       /\ damage' = [kind |-> "cut", at |-> j, orig |-> file,
                     opened |-> rd.state = "open"]
  /\ ret' = NoResult
  /\ UNCHANGED <<wr, written, rd, cvars, gvars, hvars>>

\* the libraries that get damaged
DamagedIRs == {IRClick, IRGap}
DamagedHeaderArgs == {1, 2}
DamagedLoadArgs == (0 - 1) .. 1
DamagedNameArgs == {"gap", "Gap"}

NextDamaged ==
  \/ \E irCount \in DamagedHeaderArgs : WriteHeader(irCount)
  \/ \E ir \in DamagedIRs : WriteIR(ir)
  \/ Close
  \/ OverwriteChunkID
  \/ Truncate
  \/ NewReader
  \/ \E index \in DamagedLoadArgs : Reader_LoadIR(index)
  \/ \E name \in DamagedNameArgs : Reader_LoadIRByName(name)

SpecDamaged == InitLibrary /\ [][NextDamaged]_vars

\* ---- libraries of a later writer

\* a sub-chunk this reader does not know: id, size, and that many bytes
UnknownSubChunk ==
  <<Field("id", UnknownID), Field("u32", 4), Field("str", "data")>>

\* where the unknown sub-chunk stands among META and AUDI
Places == {"first", "middle", "last"}

\* the IR chunk of ir, with the unknown sub-chunk at the place given
\* ("none": without it); the chunk size covers all sub-chunks
ForeignChunk(ir, place) ==
  LET metaData == buildMetadataSubChunk(ir.Metadata)
      audioData == buildAudioSubChunk(ir.Audio)
      body == CASE place = "first" -> UnknownSubChunk \o metaData \o audioData
                [] place = "middle" -> metaData \o UnknownSubChunk \o audioData
                [] place = "last" -> metaData \o audioData \o UnknownSubChunk
                [] OTHER -> metaData \o audioData
  IN <<Field("id", ChunkTypeIR), Field("u64", SizeOf(body, Len(body)))>>
       \o body

\* the IR chunks of irs[1 .. i], chunk k holding the unknown sub-chunk
RECURSIVE ForeignChunks(_, _, _, _)
ForeignChunks(irs, i, k, place) ==
  IF i = 0 THEN <<>>
  ELSE ForeignChunks(irs, i - 1, k, place)
         \o ForeignChunk(irs[i], IF i = k THEN place ELSE "none")

\* a library as the format describes it, holding irs, whose chunk k has an
\* unknown sub-chunk: header, IR chunks, index with the offset of each chunk
ForeignLibrary(irs, k, place) ==
  /\ wr.phase = "new"
  /\ k <= Len(irs)
  /\ LET chunks == ForeignChunks(irs, Len(irs), k, place)
         irOffsets == [i \in 1 .. Len(irs) |->
                         LET before == ForeignChunks(irs, i - 1, k, place)
                         IN FileHeaderSize + SizeOf(before, Len(before))]
         irMetas == [i \in 1 .. Len(irs) |-> irs[i].Metadata]
         indexOffset == FileHeaderSize + SizeOf(chunks, Len(chunks))
         indexData == buildIndexChunk(irOffsets, irMetas, 1)
     IN /\ file' = <<Field("id", MagicNumber),
                     Field("u16", CurrentVersion),
                     Field("u32", Len(irs)),
                     Field("u64", indexOffset)>>
                     \o chunks
                     \o <<Field("id", ChunkTypeIndex),
                          Field("u64", SizeOf(indexData, Len(indexData)))>>
                     \o indexData
        /\ wr' = [phase |-> "foreign", irCount |-> Len(irs),
                  irOffsets |-> irOffsets, irMetas |-> irMetas,
                  currentPos |-> indexOffset]
  /\ written' = irs
  /\ damage' = [kind |-> "extra", chunk |-> k, place |-> place]
  /\ UNCHANGED <<rd, ret, cvars, gvars, hvars>>

ForeignIRs == {IRHall, IRClick, IRGap}
ForeignLibraries == UNION {[1 .. n -> ForeignIRs] : n \in 1 .. MaxIRs}

NextForeign ==
  \/ \E irs \in ForeignLibraries, k \in 1 .. MaxIRs, place \in Places :
       ForeignLibrary(irs, k, place)
  \/ NewReader
  \/ \E index \in LoadArgs : Reader_LoadIR(index)

SpecForeign == InitLibrary /\ [][NextForeign]_vars

\* ---- the half-precision conversions on their own

\* float32 inputs: both signs; exponent fields for zero and subnormals, for
\* values below, at and above the ends of the half-precision normal range
\* (113 .. 142), and for infinity and NaN; mantissas made of a kept part
\* (the upper 10 bits) and a discarded part (the lower 13 bits) around the
\* rounding point 0x1000
F32Exponents == {0, 1, 100, 112, 113, 114, 126, 127, 141, 142, 143, 254, 255}
F32KeptBits == {0, 1, 2, 511, 512, 1021, 1022, 1023}
F32DiscardedBits == {0, 1, 4095, 4096, 4097, 6720, 6721, 8191}
F32Inputs ==
  {F32(s, e, kept * 8192 + discarded) :
     s \in {0, 1}, e \in F32Exponents,
     kept \in F32KeptBits, discarded \in F32DiscardedBits}

\* every 16-bit pattern
F16Inputs == 0 .. 65535

\* F16ToFloat32(Float32ToF16([]float32{value})): one value through both
\* conversions, as the first call made
F16_RoundTrip ==
  /\ ret = NoResult
  /\ \E value \in F32Inputs :
       ret' = [op |-> "float32ToF16", value |-> value,
               bits |-> float32ToF16(value),
               back |-> f16ToFloat32(float32ToF16(value))]
  /\ UNCHANGED <<file, wr, written, rd, damage, cvars, gvars, hvars>>

\* F16ToFloat32 of the two bytes of one pattern, as the first call made
F16_Decode ==
  /\ ret = NoResult
  /\ \E bits \in F16Inputs :
       ret' = [op |-> "f16ToFloat32", bits |-> bits,
               value |-> f16ToFloat32(bits)]
  /\ UNCHANGED <<file, wr, written, rd, damage, cvars, gvars, hvars>>

NextF16 == F16_RoundTrip \/ F16_Decode

SpecF16 == InitLibrary /\ [][NextF16]_vars

----------------------------------------------------------------------------
(* The resampler (package resampler): the lengths Resample and             *)
(* CalculateOutputLength compute, in float64 arithmetic. A positive        *)
(* float64 is [bits, e]: 53 mantissa bits, most significant first and      *)
(* beginning with 1, and the exponent of the last of them; every operation *)
(* rounds its exact result to nearest, ties to even. The interpolated      *)
(* sample values are not modelled.                                         *)

\* the binary digits of n, most significant first; none for 0
RECURSIVE BitsOf(_)
BitsOf(n) == IF n = 0 THEN <<>> ELSE Append(BitsOf(n \div 2), n % 2)

RECURSIVE IntOf(_)
IntOf(bits) ==
  IF bits = <<>> THEN 0
  ELSE 2 * IntOf(SubSeq(bits, 1, Len(bits) - 1)) + bits[Len(bits)]

\* the mantissa bits plus one in the last place, and whether that carried
\* out of the first bit
MantissaUp(bits) ==
  IF \A i \in 1 .. Len(bits) : bits[i] = 1
  THEN [bits |-> [i \in 1 .. Len(bits) |-> IF i = 1 THEN 1 ELSE 0],
        carried |-> 1]
  ELSE LET k == CHOOSE i \in 1 .. Len(bits) :
                  bits[i] = 0 /\ \A l \in i + 1 .. Len(bits) : bits[l] = 1
       IN [bits |-> [i \in 1 .. Len(bits) |->
                       IF i < k THEN bits[i] ELSE IF i = k THEN 1 ELSE 0],
           carried |-> 0]

\* the float64 nearest to the exact value with the binary digits w.bits
\* (beginning with 1), the exponent w.e of the last of them, and something
\* non-zero behind them when w.sticky
RoundToFloat64(w) ==
  LET len == Len(w.bits)
      kept == [i \in 1 .. 53 |-> IF i <= len THEN w.bits[i] ELSE 0]
      half == len >= 54 /\ w.bits[54] = 1
      rest == w.sticky \/ \E i \in 55 .. len : w.bits[i] = 1
      e == w.e + len - 53
      up == MantissaUp(kept)
  IN IF half /\ (rest \/ kept[53] = 1)
     THEN [bits |-> up.bits, e |-> e + up.carried]
     ELSE [bits |-> kept, e |-> e]

\* the first 54 digits of the quotient whose digits so far are bits, with
\* remainder r over s
RECURSIVE QuotientDigits(_, _, _, _)
QuotientDigits(bits, r, s, e) ==
  IF Len(bits) >= 54 THEN [bits |-> bits, e |-> e, sticky |-> r # 0]
  ELSE LET b == (2 * r) \div s
       IN QuotientDigits(IF bits = <<>> /\ b = 0 THEN <<>>
                         ELSE Append(bits, b),
                         (2 * r) % s, s, e - 1)

\* float64(a) / float64(b) for integers 0 < a, b < 2^30
Float64Quotient(a, b) ==
  RoundToFloat64(QuotientDigits(BitsOf(a \div b), a % b, b, 0))

\* the digits of bits * n, the digits from i + 1 on being done
RECURSIVE TimesDigits(_, _, _, _, _)
TimesDigits(bits, i, n, carry, done) ==
  IF i = 0 THEN BitsOf(carry) \o done
  ELSE IF (bits[i] * n + carry) % 2 = 0
  THEN TimesDigits(bits, i - 1, n, (bits[i] * n + carry) \div 2,
                   <<0>> \o done)
  ELSE TimesDigits(bits, i - 1, n, (bits[i] * n + carry) \div 2,
                   <<1>> \o done)

\* float64(n) * x for an integer 0 < n < 2^30
Float64Times(n, x) ==
  RoundToFloat64([bits |-> TimesDigits(x.bits, 53, n, 0, <<>>),
                  e |-> x.e, sticky |-> FALSE])

\* int(math.Round(x)) for 0 < x < 2^31: half away from zero
RoundToInt(x) ==
  LET intLen == 53 + x.e
  IN IF intLen < 0 THEN 0
     ELSE IF intLen >= 53 THEN IntOf(x.bits) * 2 ^ x.e
     ELSE IntOf(SubSeq(x.bits, 1, intLen)) + x.bits[intLen + 1]

\* a slice: the array it points into and its elements
Slice(array, data) == [array |-> array, data |-> data]

\* Resampler.Resample, for rates > 0: the slice returned, with its length
\* and, where the samples are copied, its elements
Resample(data, srcRate, dstRate) ==
  IF Len(data.data) = 0 THEN [array |-> "result", len |-> 0, data |-> <<>>]
  ELSE IF srcRate = dstRate
  THEN [array |-> "result", len |-> Len(data.data), data |-> data.data]
  ELSE [array |-> "result",
        len |-> RoundToInt(Float64Times(Len(data.data),
                                        Float64Quotient(dstRate, srcRate))),
        data |-> "interpolated"]

\* CalculateOutputLength, for rates > 0
CalculateOutputLength(inputLen, srcRate, dstRate) ==
  IF inputLen = 0 THEN 0
  ELSE RoundToInt(Float64Quotient(inputLen * dstRate, srcRate))

\* input lengths and sample rates: those of the package's tests, and 100
\* samples at 8000 Hz, which are 472.5 samples at 37800 Hz
ResampleLens == {0, 1, 2, 3, 27, 99, 100, 101, 1000, 8820}
ResampleRates == {8000, 37800, 44100, 48000, 88200, 96000}

\* r.Resample(data, srcRate, dstRate) and CalculateOutputLength(len(data),
\* srcRate, dstRate), as the tests call them
Resampler_Resample ==
  /\ ret = NoResult
  /\ \E n \in ResampleLens, srcRate \in ResampleRates,
        dstRate \in ResampleRates :
       ret' = [op |-> "Resample",
               data |-> Slice("data", Input(2, 0, n)),
               srcRate |-> srcRate, dstRate |-> dstRate,
               result |-> Resample(Slice("data", Input(2, 0, n)),
                                   srcRate, dstRate),
               expectedLen |-> CalculateOutputLength(n, srcRate, dstRate)]
  /\ UNCHANGED <<file, wr, written, rd, damage, cvars, gvars, hvars>>

NextResample == Resampler_Resample

SpecResample == InitLibrary /\ [][NextResample]_vars

----------------------------------------------------------------------------
(* Partitioning: NewLowLatencyConvolutionEngine on IRs of many lengths     *)

\* IR lengths: every length up to a few blocks of the smallest latency,
\* then the lengths at and just above every multiple of 64
PartitionLens ==
  (1 .. 300) \cup {64 * k + d : k \in 5 .. 140, d \in {0, 1}}
\* minBlockOrder and maxBlockOrder as the constructor accepts them
PartitionMinOrders == MinOrderLimit .. MaxOrderLimit
PartitionMaxOrders == MinOrderLimit .. MaxOrderLimit + 1

\* NewLowLatencyConvolutionEngine(ir, minOrd, maxOrd) up to partitionIR: the
\* padded size, the stages and the buffers allocated
Engine_Partition ==
  /\ ret = NoResult
  /\ \E irLen \in PartitionLens, minOrd \in PartitionMinOrders,
        maxOrd \in PartitionMaxOrders :
       /\ LowLatencyParamsOK(irLen, minOrd, maxOrd)
       /\ LET padded == calculatePaddedIRSize(irLen, minOrd)
          IN ret' = [op |-> "partitionIR", irSize |-> irLen,
                     minBlockOrder |-> minOrd, maxBlockOrder |-> maxOrd,
                     latency |-> 2 ^ minOrd,
                     irSizePadded |-> padded,
                     outputBuffer |-> padded,
                     stages |-> partitionIR(padded, minOrd, maxOrd)]
  /\ UNCHANGED <<file, wr, written, rd, damage, cvars, gvars, hvars>>

NextPartition == Engine_Partition

SpecPartition == InitLibrary /\ [][NextPartition]_vars

----------------------------------------------------------------------------
(* The WebSocket hub (web.Hub, web.Client, Server.handleWebSocket)         *)
(*                                                                         *)
(* One step is one channel operation.  register and unregister are         *)
(* unbuffered: a send on them and the receive in Run's select are one      *)
(* step.  A send on a closed channel and a second close panic.  A panic in  *)
(* Run, which main starts with "go s.hub.Run()", ends the program; a panic *)
(* in handleWebSocket ends that handler goroutine only, since net/http     *)
(* recovers the panics of the handlers it serves.                          *)

Alive == crash \notin {"hub: close of closed channel",
                       "hub: send on closed channel"}

\* handleWebSocket: the upgrade succeeded and the Client was made; the
\* handler stands at "s.hub.register <- client"
HandleWebSocket_Upgrade(c) ==
  /\ Alive
  /\ conn[c].pc = "none"
  /\ conn' = [conn EXCEPT ![c].pc = "register"]
  /\ UNCHANGED <<hub, send, crash, casts, cvars, gvars, lvars>>

\* Run: "case client := <-h.register"
Hub_Register(c) ==
  /\ Alive
  /\ hub.pc = "select"
  /\ conn[c].pc = "register"
  /\ hub' = [hub EXCEPT !.clients = @ \cup {c}]
  /\ conn' = [conn EXCEPT ![c].pc = "sendState"]
  /\ UNCHANGED <<send, crash, casts, cvars, gvars, lvars>>

\* "client.send <- data" in the handler goroutine: blocks while the buffer
\* is full, panics when the channel is, or meanwhile gets, closed
ClientSend(c, next) ==
  IF send[c].closed
  THEN /\ crash' = "handler: send on closed channel"
       /\ conn' = [conn EXCEPT ![c].pc = "panicked"]
       /\ UNCHANGED send
  ELSE /\ send[c].len < SendBuffer
       /\ send' = [send EXCEPT ![c].len = @ + 1]
       /\ conn' = next
       /\ UNCHANGED crash

\* Server.sendState(client)
Server_sendState(c) ==
  /\ Alive
  /\ conn[c].pc = "sendState"
  /\ ClientSend(c, [conn EXCEPT ![c].pc = "sendIRList"])
  /\ UNCHANGED <<hub, casts, cvars, gvars, lvars>>

\* Server.sendIRList(client), then "go client.writePump()" and readPump
Server_sendIRList(c) ==
  /\ Alive
  /\ conn[c].pc = "sendIRList"
  /\ ClientSend(c, [conn EXCEPT ![c].pc = "readPump",
                                ![c].writePump = "running"])
  /\ UNCHANGED <<hub, casts, cvars, gvars, lvars>>

\* writePump: "for message := range c.send" takes a message and writes it
WritePump_Write(c) ==
  /\ Alive
  /\ conn[c].writePump = "running"
  /\ send[c].len > 0
  /\ send' = [send EXCEPT ![c].len = @ - 1]
  /\ UNCHANGED <<hub, conn, crash, casts, cvars, gvars, lvars>>

\* writePump returns: the channel is closed and drained, or WriteMessage
\* returned an error
WritePump_Return(c) ==
  /\ Alive
  /\ conn[c].writePump = "running"
  /\ conn' = [conn EXCEPT ![c].writePump = "done"]
  /\ UNCHANGED <<hub, send, crash, casts, cvars, gvars, lvars>>

\* readPump: ReadMessage returned an error; the deferred function stands at
\* "c.hub.unregister <- c"
ReadPump_Return(c) ==
  /\ Alive
  /\ conn[c].pc = "readPump"
  /\ conn' = [conn EXCEPT ![c].pc = "unregister"]
  /\ UNCHANGED <<hub, send, crash, casts, cvars, gvars, lvars>>

\* Run: "case client := <-h.unregister" for client c:
\* "if _, ok := h.clients[client]; ok { delete(...); close(client.send) }"
Unregistered(c) ==
  IF c \in hub.clients
  THEN /\ hub' = [hub EXCEPT !.clients = @ \ {c}]
       /\ IF send[c].closed
          THEN /\ crash' = "hub: close of closed channel"
               /\ UNCHANGED send
          ELSE /\ send' = [send EXCEPT ![c].closed = TRUE,
                                       ![c].closes = @ + 1]
               /\ UNCHANGED crash
  ELSE UNCHANGED <<hub, send, crash>>

\* the unregister sent by readPump's deferred function
Hub_Unregister(c) ==
  /\ Alive
  /\ hub.pc = "select"
  /\ conn[c].pc = "unregister"
  /\ Unregistered(c)
  /\ conn' = [conn EXCEPT ![c].pc = "done"]
  /\ UNCHANGED <<casts, cvars, gvars, lvars>>

\* the unregister sent by a "go func(c *Client) { h.unregister <- c }"
Hub_UnregisterFull(c) ==
  /\ Alive
  /\ hub.pc = "select"
  /\ conn[c].removers > 0
  /\ Unregistered(c)
  /\ conn' = [conn EXCEPT ![c].removers = @ - 1]
  /\ UNCHANGED <<casts, cvars, gvars, lvars>>

\* Hub.Broadcast(message): "select { case h.broadcast <- message: default: }"
Hub_Broadcast ==
  /\ Alive
  /\ casts < MaxBroadcasts
  /\ casts' = casts + 1
  /\ hub' = [hub EXCEPT !.broadcast =
               IF @ < BroadcastBuffer THEN @ + 1 ELSE @]
  /\ UNCHANGED <<conn, send, crash, cvars, gvars, lvars>>

\* Run: "case message := <-h.broadcast", h.mu.RLock(), the range begins
Hub_Receive ==
  /\ Alive
  /\ hub.pc = "select"
  /\ hub.broadcast > 0
  /\ hub' = [hub EXCEPT !.broadcast = @ - 1,
                        !.todo = hub.clients,
                        !.pc = IF hub.clients = {} THEN "select"
                               ELSE "range"]
  /\ UNCHANGED <<conn, send, crash, casts, cvars, gvars, lvars>>

\* Run: one iteration of "for client := range h.clients":
\* "select { case client.send <- message: default: go func... }"
Hub_Range(c) ==
  /\ Alive
  /\ hub.pc = "range"
  /\ c \in hub.todo
  /\ hub' = [hub EXCEPT !.todo = @ \ {c},
                        !.pc = IF hub.todo = {c} THEN "select" ELSE "range"]
  /\ IF send[c].closed
     THEN /\ crash' = "hub: send on closed channel"
          /\ UNCHANGED <<send, conn>>
     ELSE IF send[c].len < SendBuffer
     THEN /\ send' = [send EXCEPT ![c].len = @ + 1]
          /\ UNCHANGED <<conn, crash>>
     ELSE /\ conn' = [conn EXCEPT ![c].removers = @ + 1]
          /\ UNCHANGED <<send, crash>>
  /\ UNCHANGED <<casts, cvars, gvars, lvars>>

NextHub ==
  \/ \E c \in Clients : HandleWebSocket_Upgrade(c)
  \/ \E c \in Clients : Hub_Register(c)
  \/ \E c \in Clients : Server_sendState(c)
  \/ \E c \in Clients : Server_sendIRList(c)
  \/ \E c \in Clients : WritePump_Write(c)
  \/ \E c \in Clients : WritePump_Return(c)
  \/ \E c \in Clients : ReadPump_Return(c)
  \/ \E c \in Clients : Hub_Unregister(c)
  \/ \E c \in Clients : Hub_UnregisterFull(c)
  \/ Hub_Broadcast
  \/ Hub_Receive
  \/ \E c \in Clients : Hub_Range(c)

SpecHub == InitLibrary /\ [][NextHub]_vars

----------------------------------------------------------------------------
(* Claims about the coordinator                                            *)

ActiveJobs == {i \in WorkerIds : jobs[i].pc # "free"}

\* the step in which worker i leaves its critical section
WorkerFinishes(i) == jobs[i].pc = "body" /\ jobs'[i].pc = "free"

\* the engine a worker's result yields for channel ch
JobEngine(job, ch) ==
  createEngine(engineType, job.ir, SourceChannel(ch, Lib[job.ir].nch),
               job.rate,
               ResampledLen(Lib[job.ir].len, Lib[job.ir].rate, job.rate),
               minBlockOrder, maxBlockOrder)

\* C1: when the background resample for rate r finishes, its critical
\* section installs the engines built for r exactly when the coordinator's
\* sample rate still equals r (a channel whose engine could not be built
\* keeps its engine); otherwise it leaves the engines as they are; the
\* resampling-in-flight flag is cleared either way.
C1_StaleCheck ==
  [][\A i \in WorkerIds :
       WorkerFinishes(i) =>
         /\ ~resamplingInFlight'
         /\ IF sampleRate = jobs[i].rate
            THEN \A ch \in 0 .. channels - 1 :
                   engines'[ch] = IF JobEngine(jobs[i], ch).res = "ok"
                                  THEN JobEngine(jobs[i], ch).engine
                                  ELSE engines[ch]
            ELSE engines' = engines]_vars

\* a worker has found its result stale and dropped it, leaving engines that
\* were built for another rate in service
C1_Witness ==
  /\ wLast = "dropped"
  /\ ~resamplingInFlight
  /\ \E ch \in 0 .. channels - 1 :
       engines[ch].state = "ok" /\ engines[ch].rate # sampleRate

\* what thread t is about to do at its program counter: reading library
\* data, resampling, constructing engines
HeavyWork(t) ==
  IF pc[t] \in {"lib_read", "rdr_read"} THEN {"read"}
  ELSE IF pc[t] \in {"ld_apply", "sw_apply"}
  THEN (IF Lib[loc[t].ir].rate # sampleRate THEN {"resample"} ELSE {})
         \cup {"construct"}
  ELSE {}

WorkerHeavyWork(i) ==
  IF jobs[i].pc = "resample" THEN {"resample"}
  ELSE IF jobs[i].pc = "body" /\ ~IsStale(jobs[i]) THEN {"construct"}
  ELSE {}

\* C2: no control operation holds the writer lock while it reads library
\* data, resamples or constructs engines.
C2_Claim ==
  /\ \A t \in Threads : mu.w = t => HeavyWork(t) = {}
  /\ \A i \in WorkerIds : mu.w = WName(i) => WorkerHeavyWork(i) = {}

\* C3: no ProcessBlock call lets a fault escape to the host, for any channel
\* index, block length and engine type.
C3_Claim == fault # "ProcessBlock"

\* C7: once every pending notification is delivered, each listener's most
\* recent OnIRChange names the IR of the last committed switch.
C7_Claim ==
  (pending = <<>> /\ lastSwitch # NoIR) =>
     \A l \in listeners : heard[l] = lastSwitch

\* a load or switch applies an IR in this step
ApplyStep ==
  \E t \in Threads : pc[t] \in {"sw_apply", "ld_apply"} /\ pc'[t] = "idle"

C9_OneResample ==
  /\ Cardinality(ActiveJobs) <= 1
  /\ resamplingInFlight <=> ActiveJobs # {}

\* a rate change arrived while a resample was in flight and started none
C9_Witness ==
  \E i \in ActiveJobs : sampleRate # jobs[i].rate

\* C10: the audio callback path never holds the writer lock.
C10_Claim == mu.w # "audio"

\* C11: a ProcessBlock call copies the input to the output (bypass, no
\* mixing) whenever the coordinator is disabled or the channel argument is
\* not a valid index (ch < 0 or ch >= channels).
C11_Claim ==
  pc["audio"] = "pb_body" =>
    \A ch \in ChannelArgs, n \in FrameCounts :
      (~enabled \/ ch < 0 \/ ch >= channels) =>
         BlockResult(ch, n) = "bypass"

\* the smaller of two integers
Min(a, b) == IF a < b THEN a ELSE b

\* C12: every engine in service for output channel ch was built from source
\* channel min(ch, k - 1) of its IR, k being the IR's channel count, whether
\* a load or a completed resample installed it.
C12_Claim ==
  \A ch \in 0 .. channels - 1 :
    engines[ch].state = "ok" =>
      engines[ch].sch = Min(ch, Lib[engines[ch].ir].nch - 1)

\* the values a float64 in [0, 1] can have, in hundredths
UnitLevels == {Level(v) : v \in 0 .. 100}

\* C13: after any sequence of SetWetLevel and SetDryLevel calls with
\* arbitrary arguments, interleaved with the other operations, GetWetLevel
\* and GetDryLevel return values in [0, 1].
C13_Claim ==
  /\ GetWetLevel \in UnitLevels
  /\ GetDryLevel \in UnitLevels

\* C15: from the start of the engine's processing to the end of the mix of
\* one ProcessBlock call, the engines, the enabled flag and the wet and dry
\* levels are those the call saw when it took the read lock: no setter,
\* load or resample completion takes effect in between.
C15_ConsistentSnapshot ==
  pc["audio"] \in {"pb_body", "pb_mix"} => snap = Snapshot

\* the callback is in its mix loop with levels that a setter has changed,
\* while a finished resample waits for the lock
C15_Witness ==
  /\ pc["audio"] = "pb_mix"
  /\ wetLevel # Level(DefaultWetLevel)
  /\ \E i \in WorkerIds : jobs[i].pc = "lock"

\* a step that stores a new latency order
LatencyStored == minBlockOrder' # minBlockOrder

\* SetLatency(m) stores m clamped to [6, 9] and changes nothing else
SetLatencyStoresClamped ==
  LatencyStored =>
    /\ minBlockOrder' \in {ClampOrder(m) : m \in LatencyArgs}
    /\ minBlockOrder' \in MinLatencyOrder .. MaxLatencyOrder
    /\ UNCHANGED <<sampleRate, originalIR, originalIRRate,
                   resamplingInFlight, engineType, maxBlockOrder, engines,
                   enabled, listeners, mu, pc, loc, jobs, pending, heard,
                   fault, wLast, lastSwitch, mvars, evars>>

\* C16 as stated: SetLatency(m) stores m clamped to [6, 9] and changes
\* nothing else, and only an IR load gives a channel an engine of another
\* latency than the one it replaces.
C16_Claim ==
  [][/\ SetLatencyStoresClamped
     /\ ~ApplyStep =>
          \A ch \in 0 .. channels - 1 :
            (engines[ch].state = "ok" /\ engines'[ch].state = "ok") =>
               engines'[ch].order = engines[ch].order]_vars

\* what the code does instead (C16): SetLatency(m) stores m clamped to
\* [6, 9] and changes nothing else, and every engine installed later, by an
\* IR load, an IR switch or a completed resample, is built with the stored
\* latency.
C16_LatencyOnRebuild ==
  [][/\ SetLatencyStoresClamped
     /\ \A ch \in 0 .. channels - 1 :
          (engines'[ch] # engines[ch] /\ engines'[ch].state = "ok") =>
             engines'[ch].order = minBlockOrder]_vars

----------------------------------------------------------------------------
(* Claims about the low-latency engine, checked under SpecEngine *)

\* (h * x)[n] for the IR of configuration c and stream s
RECURSIVE ConvAt(_, _, _, _)
ConvAt(taps, j, s, n) ==
  IF j > Len(taps) THEN 0
  ELSE (IF n - taps[j][1] >= 0
        THEN taps[j][2] * Sample(s, n - taps[j][1]) ELSE 0)
         + ConvAt(taps, j + 1, s, n)

\* the stream fed so far, handed to a fresh engine in one ProcessBlock call
OneCall == ProcessBlock(FreshEngine(cfg), Input(sid, 0, fed))

SomeOutput == \E n \in 1 .. Len(out) : out[n] # 0

\* C4: however the stream is split into calls, the output of a low-latency
\* engine is zero for the first L = 2^minOrder samples and then the linear
\* convolution of the IR with the input, delayed by exactly L samples.
C4_DelayedConvolution ==
  resets = 0 =>
    /\ Len(out) = fed
    /\ \A n \in 1 .. Len(out) :
         out[n] = IF n - 1 < eng.latency THEN 0
                  ELSE ConvAt(Configs[cfg].taps, 1, sid, n - 1 - eng.latency)

\* a two-stage engine fed the dense stream in calls that end inside a block,
\* with output past the first stage's partition
C4_Witness ==
  /\ resets = 0
  /\ Len(eng.stages) = 2
  /\ sid = 2
  /\ "ProcessBlock" \in trail
  /\ eng.blockPosition # 0
  /\ fed > 2 * eng.irSize
  /\ out[fed] # 0

C6_ResetIsFresh ==
  resets > 0 => out = OneCall.output

\* an engine reset inside a block, then fed across its second stage's period
C6_Witness ==
  /\ resets > 0
  /\ "ResetPartial" \in trail
  /\ Len(eng.stages) = 2
  /\ fed > 4 * eng.latency
  /\ SomeOutput

\* what holds of an engine after every successful call: the buffers have
\* their sizes, the block cursor lies inside the latency block, and the
\* stage counters all count the same number of completed blocks
EngineConsistent(e) ==
  /\ Len(e.inputBuffer) = e.inputBufferSize
  /\ Len(e.outputBuffer) = e.irSizePadded
  /\ e.blockPosition \in 0 .. e.latency - 1
  /\ \E c \in 0 .. e.inputBufferSize \div e.latency :
       \A k \in 1 .. Len(e.stages) :
         e.stages[k].mod = c % (e.stages[k].modAnd + 1)

\* C14: when ProcessBlock or ProcessSample32 has returned an error, the
\* engine's buffers, block cursor and stage counters satisfy what they
\* satisfy after a successful call.
C14_Claim ==
  "error" \in trail => EngineConsistent(eng)

\* after every call that returned no error the engine is consistent
C14_ConsistentAfterSuccess ==
  NoError => EngineConsistent(eng)

\* a Reset after an error leaves the freshly constructed engine
C14_ResetAfterError ==
  [][("error" \in trail /\ resets' = resets + 1) =>
        eng' = FreshEngine(cfg)]_vars

----------------------------------------------------------------------------
(* Claims about the IR library writer and reader                           *)

\* a float32 sample after the conversion to half precision and back
F16RoundTrip(value) == f16ToFloat32(float32ToF16(value))

\* the IR that a load of written IR ir is to return
ExpectedIR(ir) ==
  [Metadata |-> ir.Metadata,
   Audio |-> [ch \in 1 .. Len(ir.Audio) |->
                [i \in 1 .. Len(ir.Audio[ch]) |->
                   F16RoundTrip(ir.Audio[ch][i])]]]

\* index entry e describes written IR ir
EntryOf(e, ir) ==
  /\ e.Name = ir.Metadata.Name
  /\ e.Category = ir.Metadata.Category
  /\ e.SampleRate = ir.Metadata.SampleRate
  /\ e.Channels = ir.Metadata.Channels
  /\ e.Length = ir.Metadata.Length

\* the reader lists and loads what the writer was given
ReadsBack ==
  /\ rd.state # "none" =>
       /\ rd.state = "open"
       /\ Len(ListIRs) = Len(written)
       /\ \A i \in 1 .. Len(written) : EntryOf(ListIRs[i], written[i])
  /\ (ret.op = "LoadIR" /\ ret.index \in 0 .. Len(written) - 1) =>
       ret.res = [err |-> "none", ir |-> ExpectedIR(written[ret.index + 1])]

\* WriteHeader was given the number of IRs written, and the metadata of
\* each IR describe its audio
WrittenAsDeclared ==
  /\ wr.irCount = Len(written)
  /\ \A i \in 1 .. Len(written) : WellFormed(written[i])

HeaderIRCount(f) == f[3].v

\* the number of entries in the INDX chunk at the header's indexOffset:
\* each entry starts with the only 64-bit integer it holds, its offset
IndexEntryCount(f) ==
  LET c == Seek(f, f[4].v)
  IN Cardinality({j \in c + 2 .. Len(f) : f[j].k = "u64"})

\* C18: in every file finalized by Close the irCount of the header equals
\* the number of entries of the INDX chunk, whatever argument WriteHeader
\* was given and however many WriteIR calls were made
C18_Claim ==
  wr.phase = "closed" => HeaderIRCount(file) = IndexEntryCount(file)

\* what Close does guarantee (C18): the INDX chunk has one entry per
\* WriteIR call, and the header still holds the argument of WriteHeader
C18_IndexCountsWritten ==
  wr.phase = "closed" =>
    /\ IndexEntryCount(file) = Len(written)
    /\ HeaderIRCount(file) = wr.irCount

\* the fields of the undamaged file that hold written IR number i (from 0):
\* from its offset to the field before the next IR chunk or the index
ChunkFirst(i) == Seek(damage.orig, wr.irOffsets[i + 1])
ChunkLast(i) ==
  IF i + 1 < Len(wr.irOffsets)
  THEN Seek(damage.orig, wr.irOffsets[i + 2]) - 1
  ELSE Seek(damage.orig, damage.orig[4].v) - 1

\* the last field NewReader reads in the undamaged file: the end of the
\* index, or of its entry number irCount when the header announces fewer
\* entries than were written
IndexReadLast ==
  IF wr.irCount >= Len(written) THEN Len(damage.orig)
  ELSE LET c == Seek(damage.orig, damage.orig[4].v)
       IN IF wr.irCount = 0 THEN c + 1
          ELSE (CHOOSE j \in c + 2 .. Len(damage.orig) :
                  /\ damage.orig[j].k = "u64"
                  /\ damage.orig[j].v = wr.irOffsets[wr.irCount + 1]) - 1

\* NewReader, called on the damaged file, met the damage: the overwritten id
\* is the one of the index chunk, or the file stops before the last field
\* NewReader reads
OpenMeetsDamage ==
  /\ damage.kind # "none"
  /\ ~damage.opened
  /\ rd.state # "none"
  /\ \/ damage.kind = "id" /\ damage.orig[damage.at].v = ChunkTypeIndex
     \/ damage.kind = "cut" /\ damage.at <= IndexReadLast

\* the last LoadIR call, made on the damaged file for a listed IR, met the
\* damage: the overwritten id is one of its chunk, or the file stops before
\* the end of its chunk
LoadMeetsDamage ==
  /\ damage.kind # "none"
  /\ rd.state = "open"
  /\ ret.op = "LoadIR"
  /\ ret.index \in 0 .. Len(ListIRs) - 1
  /\ \/ /\ damage.kind = "id"
        /\ damage.at \in ChunkFirst(ret.index) .. ChunkLast(ret.index)
     \/ damage.kind = "cut" /\ damage.at <= ChunkLast(ret.index)

\* the operation that met the damage failed with the error that the kind of
\* damage maps to under errorOf
DamageFailsWith(errorOf) ==
  /\ OpenMeetsDamage =>
       rd = [state |-> "failed", err |-> errorOf[damage.kind]]
  /\ LoadMeetsDamage => ret.res = [err |-> errorOf[damage.kind]]

\* C19 as stated: every reader operation that meets a chunk id different
\* from the expected one (INDX, IR--, META, AUDI) or a truncated read fails
\* with ErrCorruptedData
C19_Claim ==
  DamageFailsWith([id |-> "ErrCorruptedData", cut |-> "ErrCorruptedData"])

\* C19 amended: a reader operation that meets a chunk id different from the
\* expected one fails with ErrInvalidChunk, and one that meets a truncated
\* read fails with ErrCorruptedData
C19_DamageFails ==
  DamageFailsWith([id |-> "ErrInvalidChunk", cut |-> "ErrCorruptedData"])

\* the AUDI id of the second IR was overwritten under an open reader, and
\* LoadIR(1) failed with ErrInvalidChunk
C19_Witness ==
  /\ damage.kind = "id"
  /\ damage.orig[damage.at].v = ChunkTypeAudio
  /\ damage.opened
  /\ LoadMeetsDamage
  /\ ret.index = 1
  /\ ret.res = [err |-> "ErrInvalidChunk"]

\* the last LoadIR call asked for an IR that the library holds
LoadedWritten == ret.op = "LoadIR" /\ ret.index \in 0 .. Len(written) - 1

\* C20: when an IR chunk holds a sub-chunk of unknown id besides its META
\* and AUDI sub-chunks, LoadIR skips it by its declared size and returns the
\* IR with the metadata and audio that were written
C20_Claim ==
  (wr.phase = "foreign" /\ LoadedWritten) =>
    ret.res = [err |-> "none", ir |-> ExpectedIR(written[ret.index + 1])]

\* what the reader does instead (C20): the library opens and lists its IRs;
\* an IR whose chunk has no unknown sub-chunk, or has it after AUDI, loads
\* as written, and one whose chunk has it before META or between META and
\* AUDI fails with ErrInvalidChunk
C20_OnlyTrailingIgnored ==
  wr.phase = "foreign" =>
    /\ rd.state # "none" =>
         /\ rd.state = "open"
         /\ Len(ListIRs) = Len(written)
         /\ \A i \in 1 .. Len(written) : EntryOf(ListIRs[i], written[i])
    /\ LoadedWritten =>
         ret.res = IF ret.index + 1 = damage.chunk /\ damage.place # "last"
                   THEN [err |-> "ErrInvalidChunk"]
                   ELSE [err |-> "none",
                         ir |-> ExpectedIR(written[ret.index + 1])]

\* no index entry of the open reader has exactly this name
NameMissing(name) == \A i \in 1 .. Len(ListIRs) : ListIRs[i].Name # name

\* C21: LoadIR(i) fails with ErrInvalidIndex for every i < 0 or i >= number
\* of index entries, and LoadIRByName(name) fails with ErrIRNotFound when no
\* index entry has exactly that name; in both cases without seeking to or
\* reading any IR chunk, whatever state the file is in
C21_FailsWithoutReading ==
  /\ (ret.op = "LoadIR" /\ (ret.index < 0 \/ ret.index >= Len(ListIRs))) =>
       /\ ret.res = [err |-> "ErrInvalidIndex"]
       /\ ret.seeks = <<>>
  /\ (ret.op = "LoadIRByName" /\ NameMissing(ret.name)) =>
       /\ ret.res = [err |-> "ErrIRNotFound"]
       /\ ret.seeks = <<>>

\* the reader lists "gap", the file was cut off at its header under the open
\* reader, and LoadIRByName("Gap") reported ErrIRNotFound
C21_Witness ==
  /\ ret.op = "LoadIRByName"
  /\ ret.name = "Gap"
  /\ \E i \in 1 .. Len(ListIRs) : ListIRs[i].Name = "gap"
  /\ damage.kind = "cut"
  /\ damage.at <= 4
  /\ ret.res = [err |-> "ErrIRNotFound"]
  /\ ret.seeks = <<>>

\* the errors a load returns
LoadErrors ==
  {"ErrInvalidIndex", "ErrIRNotFound", "ErrInvalidChunk", "ErrCorruptedData"}

\* a step in which the open reader ran a load that failed
FailedLoad ==
  /\ rd.state = "open"
  /\ damage' = damage
  /\ file' = file
  /\ <<rd, ret>>' # <<rd, ret>>
  /\ ret'.op \in {"LoadIR", "LoadIRByName"}
  /\ ret'.res.err \in LoadErrors

\* C22: a load that fails (bad index, unknown name, or a corrupted IR chunk)
\* leaves the in-memory index as it was, and every load by index or by name
\* returns after it what it would have returned before it
C22_FailureLeavesUsable ==
  [][FailedLoad =>
       /\ ListIRs' = ListIRs
       /\ \A index \in DamagedLoadArgs :
            LoadIROn(file', rd', index) = LoadIROn(file, rd, index)
       /\ LoadIRByNameOn(file', rd', "gap") = LoadIRByNameOn(file, rd, "gap")]_vars

\* the id of a sub-chunk of the second IR was overwritten; LoadIR(1) was
\* called on it, and the LoadIR(0) that followed returned the first IR
C22_Witness ==
  /\ damage.kind = "id"
  /\ Len(written) = 2
  /\ damage.at \in ChunkFirst(1) .. ChunkLast(1)
  /\ ret.op = "LoadIR"
  /\ ret.prev = 1
  /\ ret.index = 0
  /\ ret.res = [err |-> "none", ir |-> ExpectedIR(written[1])]

\* the float32 values whose magnitude lies in the range of the normal half
\* values, 2^-14 .. 65504
InHalfNormalRange(value) ==
  /\ value.e \in 113 .. 142
  /\ value.e = 142 => value.m <= 8380416

\* the magnitude of a normal float32 in units of 2^(value.e - 150)
F32Units(value) == 8388608 + value.m

\* the magnitude of the half value with these bits in the units of
\* F32Units(value): defined for a half value of the binade of value or of
\* the one above it or, being zero or subnormal, when value lies in 2^-15 ..
\* 2^-13; -1 otherwise
HalfUnits(value, bits) ==
  LET he == (bits \div 1024) % 32
      hm == bits % 1024
  IN IF he = 31 THEN 0 - 1
     ELSE IF he = 0
     THEN IF value.e = 113 THEN hm * 8192
          ELSE IF value.e = 112 THEN hm * 16384
          ELSE IF value.e = 114 THEN hm * 4096
          ELSE 0 - 1
     ELSE IF he - 15 = value.e - 127 THEN (1024 + hm) * 8192
     ELSE IF he - 15 = value.e - 126 THEN (1024 + hm) * 16384
     ELSE 0 - 1

AbsDiff(a, b) == IF a >= b THEN a - b ELSE b - a

\* a float32ToF16 call on a value in the half-precision normal range
EncodedNormal == ret.op = "float32ToF16" /\ InHalfNormalRange(ret.value)

\* the discarded 13 bits are exactly half a unit of the kept ones
IsTie(value) == value.m % 8192 = 4096

\* C23: for every input in the half-precision normal range float32ToF16
\* returns the nearest half value, and when the 13 discarded mantissa bits
\* are exactly half a unit (0x1000) it returns the neighbour whose lowest
\* mantissa bit is 0
C23_Claim ==
  EncodedNormal =>
    /\ ret.bits \div 32768 = ret.value.s
    /\ HalfUnits(ret.value, ret.bits) >= 0
    /\ AbsDiff(HalfUnits(ret.value, ret.bits), F32Units(ret.value)) <= 4096
    /\ IsTie(ret.value) => ret.bits % 2 = 0

\* C23, what float32ToF16 does: the result is a nearest half value, and in
\* a tie it is the neighbour of larger magnitude, whatever its lowest bit
C23_TiesRoundUp ==
  EncodedNormal =>
    /\ ret.bits \div 32768 = ret.value.s
    /\ HalfUnits(ret.value, ret.bits) >= 0
    /\ AbsDiff(HalfUnits(ret.value, ret.bits), F32Units(ret.value)) <= 4096
    /\ IsTie(ret.value) =>
         HalfUnits(ret.value, ret.bits) = F32Units(ret.value) + 4096

\* float32ToF16(0x3F801000), the value halfway between the half values
\* 0x3C00 and 0x3C01, returned 0x3C01
C23_Witness ==
  /\ ret.op = "float32ToF16"
  /\ ret.value = F32(0, 127, 4096)
  /\ ret.bits = 15361

\* the finite float32 values with 6.1e-5 <= |x| <= 65504: 6.1e-5 lies
\* between the float32 values 0x387FDA40 and 0x387FDA41, 65504 is 0x477FE000
InRoundTripRange(value) ==
  \/ value.e = 112 /\ value.m >= 8378945
  \/ value.e \in 113 .. 141
  \/ value.e = 142 /\ value.m <= 8380416

\* the magnitude of the finite float32 back in the units of F32Units(value):
\* defined for zero and for the binade of value and the one above it, -1
\* otherwise
BackUnits(value, back) ==
  IF back.e = 255 THEN 0 - 1
  ELSE IF back.e = 0 /\ back.m = 0 THEN 0
  ELSE IF back.e = value.e THEN 8388608 + back.m
  ELSE IF back.e = value.e + 1 THEN 2 * (8388608 + back.m)
  ELSE 0 - 1

\* |back - value| <= |value| * 2^-10, with the sign kept
WithinRelative(value, back) ==
  /\ back.s = value.s
  /\ BackUnits(value, back) >= 0
  /\ AbsDiff(BackUnits(value, back), F32Units(value))
       <= F32Units(value) \div 1024

\* C24: for every finite float32 x with 6.1e-5 <= |x| <= 65504,
\* f16ToFloat32(float32ToF16(x)) differs from x by a relative error of at
\* most 2^-10
C24_Claim ==
  (ret.op = "float32ToF16" /\ InRoundTripRange(ret.value)) =>
    WithinRelative(ret.value, ret.back)

\* C24, what the conversions do: from 2^-14 (0x38800000) up to 65504 the
\* round trip is within 2^-10, and every normal float32 below 2^-14 comes
\* back as zero of its sign
C24_WithinFromMinNormal ==
  /\ EncodedNormal => WithinRelative(ret.value, ret.back)
  /\ (ret.op = "float32ToF16" /\ ret.value.e \in 1 .. 112) =>
       ret.back = F32(ret.value.s, 0, 0)

\* float32ToF16(0x387FDA41), the smallest float32 that is at least 6.1e-5,
\* returned 0 and came back as +0
C24_Witness ==
  /\ ret.op = "float32ToF16"
  /\ ret.value = F32(0, 112, 8378945)
  /\ ret.bits = 0
  /\ ret.back = F32(0, 0, 0)

\* the class of a float32
F32Class(value) ==
  IF value.e = 255 THEN (IF value.m = 0 THEN "infinity" ELSE "NaN")
  ELSE IF value.e = 0 THEN (IF value.m = 0 THEN "zero" ELSE "subnormal")
  ELSE "normal"

\* C25: through float32ToF16 and f16ToFloat32 a zero stays the zero of its
\* sign, an infinity the infinity of its sign, every NaN bit pattern a NaN,
\* and every subnormal float32 becomes the zero of its sign
C25_Claim ==
  ret.op = "float32ToF16" =>
    /\ F32Class(ret.value) \in {"zero", "infinity"} => ret.back = ret.value
    /\ F32Class(ret.value) = "NaN" => F32Class(ret.back) = "NaN"
    /\ F32Class(ret.value) = "subnormal" => ret.back = F32(ret.value.s, 0, 0)

\* C25, what the conversions do: zeros and infinities come back as they
\* were, subnormals as the zero of their sign, a NaN with one of its upper
\* ten mantissa bits set as a NaN, and a NaN with none of them set as the
\* infinity of its sign
C25_LowPayloadNaNIsInfinity ==
  ret.op = "float32ToF16" =>
    /\ F32Class(ret.value) \in {"zero", "infinity"} => ret.back = ret.value
    /\ F32Class(ret.value) = "subnormal" => ret.back = F32(ret.value.s, 0, 0)
    /\ (F32Class(ret.value) = "NaN" /\ ret.value.m >= 8192) =>
         F32Class(ret.back) = "NaN"
    /\ (F32Class(ret.value) = "NaN" /\ ret.value.m < 8192) =>
         ret.back = F32(ret.value.s, 255, 0)

\* float32ToF16(0x7F800001), a NaN, returned 0x7C00 and came back as
\* +infinity
C25_Witness ==
  /\ ret.op = "float32ToF16"
  /\ ret.value = F32(0, 255, 1)
  /\ ret.bits = 31744
  /\ ret.back = F32(0, 255, 0)

\* C26: f16ToFloat32 maps every subnormal half pattern (exponent field 0,
\* mantissa m # 0) to the float32 of the same value, m * 2^-24 with the
\* sign of the pattern: for the highest set bit 2^k of m that is exponent
\* field 103 + k and the lower bits of m moved up to the top of the mantissa
C26_Claim ==
  (ret.op = "f16ToFloat32" /\ (ret.bits \div 1024) % 32 = 0
     /\ ret.bits % 1024 # 0) =>
    LET m == ret.bits % 1024
        k == CHOOSE j \in 0 .. 9 : 2^j <= m /\ m < 2^(j + 1)
    IN ret.value = F32(ret.bits \div 32768, 103 + k, (m - 2^k) * 2^(23 - k))

\* C26, what f16ToFloat32 does: a subnormal half pattern comes back with
\* exponent field 113 and mantissa m << 13, the value (1 + m / 1024) * 2^-14
C26_ImplicitOneAdded ==
  (ret.op = "f16ToFloat32" /\ (ret.bits \div 1024) % 32 = 0
     /\ ret.bits % 1024 # 0) =>
    ret.value = F32(ret.bits \div 32768, 113, (ret.bits % 1024) * 8192)

\* f16ToFloat32(0x0001), the smallest subnormal half 2^-24, returned
\* 0x38802000 = 2^-14 + 2^-24
C26_Witness ==
  /\ ret.op = "f16ToFloat32"
  /\ ret.bits = 1
  /\ ret.value = F32(0, 113, 8192)

\* (h * x)[n] for the IR ir and stream s, n counted from 0
RECURSIVE DirectAt(_, _, _, _)
DirectAt(ir, k, s, n) ==
  IF k > Len(ir) \/ k - 1 > n THEN 0
  ELSE ir[k] * Sample(s, n - (k - 1)) + DirectAt(ir, k + 1, s, n)

\* the outputs so far, concatenated, are the linear convolution of the IR
\* with the input so far, truncated to its length
OutputIsConvolution ==
  /\ Len(out) = fed
  /\ \A n \in 1 .. Len(out) :
       out[n] = DirectAt(OverlapAddConfigs[cfg].ir, 1, sid, n - 1)

\* C27: for every IR and every sequence of blocks of length at most
\* blockSize each, every ProcessBlock call of the overlap-add engine returns
\* as many samples as it was given, and the outputs concatenated are the
\* linear convolution of the IR with the blocks concatenated, truncated to
\* their length
C27_Claim ==
  "panic: block size" \notin trail =>
    /\ "panic: slice bounds" \notin trail
    /\ OutputIsConvolution

\* C27, what the engine does: the outputs are that convolution as long as
\* no call panicked and no block was shorter than the overlap buffer
\* (irLen - 1 samples)
C27_ConvolutionWithoutShortBlocks ==
  trail = {} => OutputIsConvolution

\* the engine of TestOverlapAddConsistency was given the unit impulse in
\* three blocks of one sample, and the third output sample is 0, not h[2]
C27_Witness ==
  /\ cfg = 1
  /\ sid = 1
  /\ calls = 3
  /\ fed = 3
  /\ trail = {"short block"}
  /\ out = <<7, 2, 0>>

\* round(n * dstRate / srcRate), halves away from zero, in exact arithmetic
ExactRounded(n, srcRate, dstRate) ==
  (2 * n * dstRate + srcRate) \div (2 * srcRate)

\* C28: Resample returns a newly allocated sequence whose length is
\* round(len(data) * dstRate / srcRate) and equals CalculateOutputLength;
\* for srcRate = dstRate it is an element-for-element copy of data, and for
\* empty data it is empty
C28_Claim ==
  ret.op = "Resample" =>
    /\ ret.result.array # ret.data.array
    /\ ret.result.len
         = ExactRounded(Len(ret.data.data), ret.srcRate, ret.dstRate)
    /\ ret.result.len = ret.expectedLen
    /\ ret.srcRate = ret.dstRate => ret.result.data = ret.data.data
    /\ Len(ret.data.data) = 0 => ret.result.len = 0

\* C28, what the two functions do: the result is newly allocated, a copy
\* for equal rates and empty for empty data; CalculateOutputLength is the
\* exactly rounded length, and the length of the result is that or one less
C28_LengthWithinOne ==
  ret.op = "Resample" =>
    /\ ret.result.array # ret.data.array
    /\ ret.expectedLen
         = ExactRounded(Len(ret.data.data), ret.srcRate, ret.dstRate)
    /\ ret.result.len \in {ret.expectedLen - 1, ret.expectedLen}
    /\ ret.srcRate = ret.dstRate =>
         /\ ret.result.data = ret.data.data
         /\ ret.result.len = Len(ret.data.data)
    /\ Len(ret.data.data) = 0 => ret.result.len = 0

\* 100 samples were resampled from 8000 Hz to 37800 Hz: the result has 472
\* samples and CalculateOutputLength says 473
C28_Witness ==
  /\ ret.op = "Resample"
  /\ Len(ret.data.data) = 100
  /\ ret.srcRate = 8000
  /\ ret.dstRate = 37800
  /\ ret.result.len = 472
  /\ ret.expectedLen = 473

\* the engines in service: the channels holding a constructed engine
InService == {ch \in 0 .. channels - 1 : engines[ch].state = "ok"}

\* C29: whenever no resample is in flight, every engine in service was
\* built from the original IR the coordinator stores at that moment, however
\* loads, SwitchIR and SetSampleRate interleave with the resample worker;
\* stated for the running program with an engine constructed for every
\* channel, which leaves aside the loads that failed half-way
C29_Claim ==
  (Running /\ ~resamplingInFlight /\ InService = 0 .. channels - 1) =>
     \A ch \in InService : engines[ch].ir = originalIR

\* a worker that resampled "hall" installed its engines after SwitchIR had
\* applied "click" at the rate the coordinator still has: no resample is in
\* flight, and the engines in service are built from an IR the coordinator
\* no longer holds
C29_Witness ==
  /\ fault = "none"
  /\ ~resamplingInFlight
  /\ wLast = "installed"
  /\ lastSwitch = [idx |-> 1, name |-> "click"]
  /\ originalIR = 2
  /\ sampleRate = 48000
  /\ InService = 0 .. channels - 1
  /\ \A ch \in InService : engines[ch].ir = 1

\* no SetSampleRate call, no load and no resample worker is under way
Quiet ==
  /\ Running
  /\ ~resamplingInFlight
  /\ \A i \in WorkerIds : jobs[i].pc = "free"
  /\ pc["audio"] # "ssr_body"
  /\ \A t \in Loaders : pc[t] = "idle"

\* an IR is stored whose resampling to the current rate is not empty, and
\* every channel has a constructed engine
LoadedForRate ==
  /\ originalIR # 0
  /\ InService = 0 .. channels - 1
  /\ ResampledLen(Lib[originalIR].len, originalIRRate, sampleRate) > 0

\* C30: with an IR loaded, after any number of SetSampleRate calls (also
\* calls made while a resample is in flight), once all background work has
\* finished the engines in service are built from the original IR
\* resampled to the sample rate set last
C30_Claim ==
  (Quiet /\ LoadedForRate) =>
     \A ch \in InService :
        /\ engines[ch].ir = originalIR
        /\ engines[ch].rate = sampleRate

\* C30, what the coordinator does: once the work has finished, the engines
\* are built from the original IR for the current rate or, when the last
\* worker dropped its result, for an earlier one
C30_CurrentUnlessDropped ==
  (Quiet /\ LoadedForRate) =>
     \A ch \in InService :
        /\ engines[ch].ir = originalIR
        /\ engines[ch].rate = sampleRate \/ wLast = "dropped"

\* "hall" was loaded at 48000 Hz, the rate went to 24000 Hz and, during
\* the resample, to 96000 Hz; the worker dropped its result: nothing is in
\* flight and the engines are still those built for 48000 Hz
C30_Witness ==
  /\ Quiet
  /\ originalIR = 1
  /\ sampleRate = 96000
  /\ wLast = "dropped"
  /\ \A ch \in 0 .. channels - 1 :
        engines[ch].state = "ok" /\ engines[ch].rate = 48000

\* the engines in service are built from the stored IR for the current rate
BuiltForCurrentRate ==
  \A ch \in InService :
     /\ engines[ch].ir = originalIR
     /\ engines[ch].rate = sampleRate

\* C30 as a property of behaviours: if from some point on the program runs
\* with the rate the last SetSampleRate call gave it, then from some point
\* on the engines of a loaded coordinator are built for that rate
C30_Eventually ==
  \A rate \in ChangingRates :
     <>[](Running /\ sampleRate = rate /\ LoadedForRate)
       => <>[]BuiltForCurrentRate

----------------------------------------------------------------------------
(* C31                                                                     *)

\* the applyImpulseResponseUnlocked call of thread t returns an error in
\* this step
ApplyFails(t) ==
  /\ pc[t] \in {"sw_apply", "ld_apply"}
  /\ pc'[t] = "idle"
  /\ applyImpulseResponseUnlocked(loc[t].ir).res = "err"

\* C31: a load or switch_ir whose IR application returns an error leaves
\* the engines, the stored original IR and the enabled flag exactly as
\* they were before the call.
C31_Claim ==
  [][\A t \in Threads :
       ApplyFails(t) =>
         UNCHANGED <<engines, originalIR, originalIRRate, enabled>>]_vars

\* what the code does: a failed application leaves the enabled flag alone,
\* but it has already stored the new IR as the original and has assigned
\* every engine up to and including the channel whose construction failed,
\* the last of them a nil *LowLatencyConvolutionEngine.
C31_FailureKeepsOnlyEnabled ==
  [][\A t \in Threads :
       ApplyFails(t) =>
         /\ UNCHANGED enabled
         /\ originalIR' = loc[t].ir
         /\ originalIRRate' = Lib[loc[t].ir].rate
         /\ \E ch \in 0 .. channels - 1 :
              /\ engines'[ch].state = "typednil"
              /\ \A c \in 0 .. channels - 1 :
                   c > ch => engines'[c] = engines[c]]_vars

----------------------------------------------------------------------------
(* C32                                                                     *)

\* L-sample blocks completed since construction or the last reset
BlocksCompleted == fed \div eng.latency

\* a stage runs its convolution in the PerformConvolution call that finds
\* its counter at 0; Period(s) is 2^o / L
Period(s) == s.fftSizeHalf \div s.latency

\* C32: the stage of order o has mask 2^o / L - 1 and its counter equals the
\* number of completed blocks modulo 2^o / L, so that it runs on block n
\* exactly when n is a multiple of 2^o / L, which is one block out of every
\* 2^o / L consecutive ones; the stage of order minOrder runs on every block.
C32_OneBlockPerPeriod ==
  /\ \A k \in 1 .. Len(eng.stages) :
       LET s == eng.stages[k]
       IN /\ s.fftSizeHalf = 2 ^ s.fftOrder
          /\ s.latency = eng.latency
          /\ s.modAnd = Period(s) - 1
          /\ s.mod = BlocksCompleted % Period(s)
  /\ eng.stages[1].fftOrder = eng.minBlockOrder
  /\ eng.stages[1].modAnd = 0
  /\ eng.stages[1].mod = 0

\* the three-stage engine after five completed blocks: the stage of order 8
\* (period 4) ran on blocks 0 and 4 and is one block into its second period,
\* the stage of order 7 is one block into its third
C32_Witness ==
  /\ Len(eng.stages) = 3
  /\ BlocksCompleted = 5
  /\ eng.stages[3].fftOrder = 8
  /\ eng.stages[3].mod = 1
  /\ eng.stages[2].mod = 1
  /\ "ProcessSample32" \in trail

----------------------------------------------------------------------------
(* C33                                                                     *)

\* the stages of order above minOrder
HigherStages ==
  {k \in 1 .. Len(eng.stages) : eng.stages[k].fftOrder > eng.minBlockOrder}

\* this step completes exactly one L-sample block: every stage's
\* PerformConvolution is called once, and runs its FFTs when it finds
\* "s.mod == 0"
CompletesOneBlock ==
  /\ fed' > fed
  /\ fed' \div eng.latency = BlocksCompleted + 1

AllHigherStagesRun == \A k \in HigherStages : eng.stages[k].mod = 0

\* C33: in an engine with two or more stages above minOrder there is no
\* completed block on which all of them run.
C33_Claim ==
  [][(Cardinality(HigherStages) >= 2 /\ CompletesOneBlock) =>
        ~AllHigherStagesRun]_vars

\* what the code does: every counter starts at 0 and the periods are powers
\* of two, so all higher stages run together on block 0 and on every block
\* whose number is a multiple of the top stage's period, and on no other.
C33_AllRunEveryTopPeriod ==
  [][(Cardinality(HigherStages) >= 2 /\ CompletesOneBlock) =>
        (AllHigherStagesRun <=>
           BlocksCompleted % Period(eng.stages[Len(eng.stages)]) = 0)]_vars

----------------------------------------------------------------------------
(* C34                                                                     *)

Partitioned == ret # NoResult /\ ret.op = "partitionIR"

\* the samples of the IR covered by stages 1 .. k
RECURSIVE Covered(_, _)
Covered(stages, k) ==
  IF k = 0 THEN 0
  ELSE Covered(stages, k - 1)
         + Len(stages[k].irSpectrums) * stages[k].fftSizeHalf

\* C34: the partitions tile [0, P): the stage sizes add up to the padded
\* length P = ceil(irLen / L) * L and each stage starts where the stages
\* of lower order end (the first at 0).
C34_PartitionsTile ==
  Partitioned =>
    /\ ret.irSizePadded
         = ((ret.irSize + ret.latency - 1) \div ret.latency) * ret.latency
    /\ ret.irSizePadded >= ret.irSize
    /\ ret.irSizePadded - ret.irSize < ret.latency
    /\ Covered(ret.stages, Len(ret.stages)) = ret.irSizePadded
    /\ \A k \in 1 .. Len(ret.stages) :
         /\ ret.stages[k].fftSizeHalf = 2 ^ ret.stages[k].fftOrder
         /\ ret.stages[k].outputPos = Covered(ret.stages, k - 1)

\* an IR one sample longer than TestPartitioning's, 4097 samples with orders
\* 6 to 9, is padded to 4160 and split into four stages, the top one holding
\* more than two partitions
C34_Witness ==
  /\ Partitioned
  /\ ret.irSize = 4097
  /\ ret.minBlockOrder = 6
  /\ ret.maxBlockOrder = 9
  /\ ret.irSizePadded = 4160
  /\ Len(ret.stages) = 4
  /\ Len(ret.stages[4].irSpectrums) > 2
  /\ ret.stages[4].outputPos > 0

----------------------------------------------------------------------------
(* C35                                                                     *)

\* the bounds guard of PerformConvolution for partition blockIdx of stage s
\* and an output buffer of len samples:
\* "outPos >= 0 && outPos+half <= len(signalOut)"
GuardPasses(s, blockIdx, len) ==
  /\ OutPos(s, blockIdx) >= 0
  /\ OutPos(s, blockIdx) + s.fftSizeHalf <= len

\* C35: for every stage of every constructed engine and every partition of
\* it, the overlap-add destination is at or after index 0 of the output
\* buffer (whose first L samples are those handed out next) and the span
\* written ends inside the buffer of length P, so the guard never drops a
\* contribution.
C35_NoContributionDropped ==
  Partitioned =>
    /\ ret.outputBuffer = ret.irSizePadded
    /\ \A k \in 1 .. Len(ret.stages) :
         \A blockIdx \in 0 .. Len(ret.stages[k].irSpectrums) - 1 :
           GuardPasses(ret.stages[k], blockIdx, ret.outputBuffer)

\* the three-stage engine of a 641-sample IR (P = 704): the two partitions
\* of the order-8 stage, which starts at IR index 192, are added at output
\* indexes 0 and 256, and the order-7 partition at 0
C35_Witness ==
  /\ Partitioned
  /\ ret.irSize = 641
  /\ ret.minBlockOrder = 6
  /\ ret.maxBlockOrder = 9
  /\ Len(ret.stages) = 3
  /\ ret.stages[3].outputPos = 192
  /\ OutPos(ret.stages[3], 0) = 0
  /\ OutPos(ret.stages[3], 1) = 256
  /\ OutPos(ret.stages[2], 0) = 0
  /\ GuardPasses(ret.stages[3], 1, ret.outputBuffer)

----------------------------------------------------------------------------
(* C36                                                                     *)

\* C36: between calls 0 <= blockPosition < L, whatever calls were made and
\* whether or not they returned an error, and the cursor is 0 exactly when
\* the samples accepted so far make up whole L-sample blocks.
C36_Claim ==
  /\ 0 <= eng.blockPosition
  /\ eng.blockPosition < eng.latency
  /\ (eng.blockPosition = 0 <=> fed % eng.latency = 0)

\* what the code does: as long as no call has returned an error since
\* construction or the last reset, the cursor is the number of samples
\* accepted modulo L; a ProcessSample32 that fails on the sample completing
\* a block leaves the cursor at L.
C36_CursorWithoutError ==
  /\ NoError => eng.blockPosition = fed % eng.latency
  /\ 0 <= eng.blockPosition
  /\ eng.blockPosition <= eng.latency
  /\ eng.blockPosition = eng.latency =>
        {"error", "ProcessSample32"} \subseteq trail

----------------------------------------------------------------------------
(* C37                                                                     *)

\* the number of partitions of stage k
Count(k) == Len(ret.stages[k].irSpectrums)

\* C37: the stages have the consecutive orders minOrder, minOrder + 1, ...
\* up to a top order that is at most maxOrder; every stage holds at least
\* one partition, every stage below the top one or two, and the top stage
\* holds a single partition only when its order is minOrder.
C37_ConsecutiveOrders ==
  Partitioned =>
    LET top == Len(ret.stages)
    IN /\ top >= 1
       /\ \A k \in 1 .. top :
            /\ ret.stages[k].fftOrder = ret.minBlockOrder + k - 1
            /\ Count(k) >= 1
            /\ k < top => Count(k) \in {1, 2}
       /\ ret.stages[top].fftOrder <= ret.maxBlockOrder
       /\ Count(top) = 1 => ret.stages[top].fftOrder = ret.minBlockOrder

\* a 449-sample IR with orders 6..9 (P = 512): the order-8 stage would hold
\* one partition, so the top order is lowered to 7 and the order-7 stage
\* holds three
C37_Witness ==
  /\ Partitioned
  /\ ret.irSize = 449
  /\ ret.minBlockOrder = 6
  /\ ret.maxBlockOrder = 9
  /\ Len(ret.stages) = 2
  /\ Count(1) = 2
  /\ Count(2) = 3

----------------------------------------------------------------------------
(* C38                                                                     *)

\* the errors NewReader returns
OpenErrors ==
  {"ErrInvalidMagic", "ErrUnsupportedVersion", "ErrInvalidChunk",
   "ErrCorruptedData"}

\* C38: whatever the file holds, NewReader returns a reader or one of its
\* errors, and LoadIR and LoadIRByName return an IR or one of the reader's
\* errors; no call ends in a panic.
C38_Claim ==
  /\ rd.state = "failed" => rd.err \in OpenErrors
  /\ ret # NoResult => ret.res.err \in {"none"} \cup LoadErrors

\* what the code does: a load panics in F16ToFloat32Deinterleaved when, and
\* only when, the IR chunk it reads holds metadata whose channel count does
\* not divide the number of audio samples stored; every other call returns
\* a result or one of the reader's errors.
C38_PanicsOnMismatch ==
  /\ rd.state = "failed" => rd.err \in OpenErrors
  /\ ret # NoResult =>
       /\ ret.res.err \in {"none", "panic"} \cup LoadErrors
       /\ ret.res.err = "panic" =>
            \E i \in 1 .. Len(written) : ~WellFormed(written[i])
       /\ (ret.op = "LoadIR" /\ ret.index \in 0 .. Len(rd.index) - 1
             /\ ret.index < Len(written)
             /\ ~WellFormed(written[ret.index + 1])) =>
            ret.res.err = "panic"

----------------------------------------------------------------------------
(* C39                                                                     *)

\* C39: each client's send channel is closed at most once, and no goroutine
\* sends on it after the hub has closed it.
C39_Claim ==
  /\ \A c \in Clients : send[c].closes <= 1
  /\ crash \notin {"hub: close of closed channel",
                   "hub: send on closed channel",
                   "handler: send on closed channel"}

\* what the code does: the hub closes a send channel at most once and never
\* sends on a closed one, since Run alone closes, and deletes the client in
\* the same step; the handler's initial state messages are the only sends
\* that can meet a closed channel.
C39_HubSideSafe ==
  /\ \A c \in Clients :
       /\ send[c].closes <= 1
       /\ send[c].closed <=> send[c].closes = 1
       /\ send[c].closed => c \notin hub.clients
  /\ crash \in {"none", "handler: send on closed channel"}
  /\ crash = "handler: send on closed channel" <=>
       \E c \in Clients : conn[c].pc = "panicked"
  /\ \A c \in Clients :
       conn[c].pc = "panicked" =>
          /\ send[c].closed
          /\ conn[c].writePump = "none"


====
